---- MODULE Spec2Model ----
(***************************************************************************)
(* Model of the transaction execution engine of sol-trade-sdk:             *)
(*   - the racing executor        (src/trading/core/parallel.rs)           *)
(*   - transaction assembly       (src/trading/common/transaction_builder) *)
(*   - the durable-nonce state    (src/common/nonce_cache.rs,              *)
(*                                 src/trading/common/nonce_manager.rs)    *)
(*   - the Jito relay client      (src/swqos/jito.rs)                      *)
(*   - the caching layer          (src/common/fast_fn.rs,                  *)
(*                                 src/trading/common/compute_budget_...)  *)
(*   - the lookup registry        (src/common/address_lookup_cache.rs)     *)
(*   - the executor's entry points (src/trading/core/executor.rs) and      *)
(*     sell_by_percent            (src/lib.rs)                             *)
(* Rust indexes from 0, the sequences below from 1: endpoint i of the      *)
(* model is swqos_clients[i-1].                                            *)
(***************************************************************************)
EXTENDS Integers, Sequences, FiniteSets, TLC

\* ------------------------------------------------------------------ bounds
\* Longest endpoint list (swqos_clients) a race is called with.
MaxEndpoints == 2
\* Longest buy_tip_fees / sell_tip_fees list.
MaxTips == 2
\* Number of concurrent JitoClient::send_transaction calls of SpecJito.
MaxSends == 2
\* Number of threads calling get_or_compute concurrently in SpecConc, of
\* overlapping fetch_nonce_info_use_rpc calls in SpecNonce and of threads
\* calling the lookup registry in SpecLookup.
MaxThreads == 2
\* Number of get_or_compute calls of one behaviour of SpecCache.
MaxCalls == 5
\* Capacity of each LRU cache of the model (10000 in the source, scaled).
CacheCapacity == 2
\* Width in bits of the u64 of sell_by_percent (64 in the source, scaled).
U64Bits == 8

\* --------------------------------------------------------------- constants
\* jito.rs:173  let max_retries = 2;
max_retries == 2

VARIABLES
    \* ---- racing executor (parallel_execute)
    cfg,        \* the arguments of the running parallel_execute call
    mainPc,     \* "idle" | "recv" | "returned"
    ret,        \* what parallel_execute returned
    errors,     \* its local `errors` vector
    tpc,        \* per endpoint task: "none" | "spawned" | "instructions" (SpecBuild) |
                \* "built" | "done" | "forwarded"
    ttx,        \* per endpoint task: the transaction being built
    tres,       \* per endpoint task: the JoinHandle's result
    chan,       \* the mpsc channel: endpoint indexes in arrival order
    arrived,    \* history: every endpoint index the channel received, in arrival order
    sendOk,     \* history: endpoints whose send_transaction returned Ok
    tipCalled,  \* history: endpoints whose get_tip_account was invoked
    sendCalled, \* history: endpoints whose send_transaction was invoked
    polled,     \* history: endpoints whose send polled the ledger for confirmation
    \* ---- durable nonce (NonceCache singleton)
    nonce,
    \* ---- JitoClient::send_transaction, call by call
    jpc,        \* per call: "idle" | "confirm" | "done"
    jattempt,   \* per call: the loop variable `attempt`
    jhist,      \* per call: history of poll outcomes
    jres,       \* per call: the result of send_transaction
    \* ---- caches
    cache,      \* per cache: sequence of [key, val], most recently put first
    computed,   \* history: per cache and key, number of compute_fn invocations
    evicted,    \* history: per cache and key, number of evictions
    lastCall,   \* history: the last get_or_compute call and what it returned
    useOrder,   \* history: per cache, the keys by last use (insertion or hit), latest first
    calls,      \* number of calls made
    \* ---- seed-mode token accounts (seed.rs)
    rent,       \* the statics SPL_TOKEN_RENT and SPL_TOKEN_2022_RENT
    lastCreate, \* history: the last _create_associated_token_account_idempotent_fast call
    \* ---- get_or_compute called by concurrent threads
    frames,     \* per thread: its calls in progress, the nested one last: [c, k, pc]
    tcall,      \* per thread: the cache and key of its call
    tret,       \* per thread: None, or Some(value returned)
    lock,       \* per cache: the readers and the writer of its RwLock
    writes,     \* history: the <<cache, key, value>> put by the threads
    \* ---- the ledger and the calls of fetch_nonce_info_use_rpc
    ledger,     \* the nonce account on the ledger: "uninitialized" or its token
    refresh,    \* per refresh call in progress: [pc, got, spent, res]
    \* ---- lookup registry (AddressLookupTableCache)
    tables,     \* the DashMap: per address None or Some(AddressLookupTableInfo)
    lkp,        \* per thread: the add_or_update_table call between get_mut and insert
    lhist,      \* history: the registrations completed and the last get_table_content
    \* ---- entry points of the executor
    entry,      \* the running call of buy, buy_with_tip, sell or sell_with_tip
    \* ---- sell_by_percent
    pct,        \* the last sell_by_percent call and what it did
    \* ---- get_nonce_info
    snap        \* None, or Some(the NonceInfo the last get_nonce_info returned)

raceVars == <<cfg, mainPc, ret, errors, tpc, ttx, tres, chan, arrived, sendOk, tipCalled,
              sendCalled, polled>>
jitoVars == <<jpc, jattempt, jhist, jres>>
concVars == <<frames, tcall, tret, lock, writes>>
nonceEnvVars == <<ledger, refresh>>
lookupVars == <<tables, lkp, lhist>>
lateVars == <<nonceEnvVars, lookupVars, entry, pct, snap>>
cacheVars == <<cache, computed, evicted, lastCall, useOrder, calls, rent, lastCreate, concVars>>
vars == <<cfg, mainPc, ret, errors, tpc, ttx, tres, chan, arrived, sendOk, tipCalled,
          sendCalled, polled,
          nonce, jpc, jattempt, jhist, jres, cache, computed, evicted, lastCall, useOrder,
          calls, rent, lastCreate, frames, tcall, tret, lock, writes,
          ledger, refresh, tables, lkp, lhist, entry, pct, snap>>

Endpoints == 1..MaxEndpoints

\* ------------------------------------------------------------ nonce state
\* NonceInfo (next_buy_time is never written by the code that is modelled).
ZeroHash == "zero"
Tokens == {"h1", "h2"}
NonceAccount == "nonce_acct"
NoAccount == "none"

\* NonceCache::get_instance: the state the singleton is created with.
NonceNew ==
    [nonce_account |-> NoAccount, current_nonce |-> ZeroHash, next_buy_time |-> 0, used |-> FALSE]

\* Option<T>: None is the empty tuple, Some(v) the tuple of v.
None == <<>>
Some(v) == <<v>>

\* update_nonce_info_partial resetting the used flag when none is passed.
update_nonce_info_partial_resetting_used(n, account, current, time, used) ==
    [nonce_account |-> IF account # None THEN account[1] ELSE n.nonce_account,
     current_nonce |-> IF current # None THEN current[1] ELSE n.current_nonce,
     next_buy_time |-> IF time # None THEN time[1] ELSE n.next_buy_time,
     used          |-> IF used # None THEN used[1] ELSE FALSE]

\* NonceCache::update_nonce_info_partial
update_nonce_info_partial(n, account, current, time, used) ==
    [nonce_account |-> IF account # None THEN account[1] ELSE n.nonce_account,
     current_nonce |-> IF current # None THEN current[1] ELSE n.current_nonce,
     next_buy_time |-> IF time # None THEN time[1] ELSE n.next_buy_time,
     used          |-> IF used # None THEN used[1] ELSE n.used]

\* NonceCache::get_nonce_info: the copy made field by field under the lock.
get_nonce_info(n) ==
    [nonce_account |-> n.nonce_account, current_nonce |-> n.current_nonce,
     next_buy_time |-> n.next_buy_time, used |-> n.used]

\* NonceCache::init; `account` is nonce_account_str.and_then(parse)
nonce_init(n, account) ==
    update_nonce_info_partial(n, account, None, None, Some(FALSE))

\* NonceCache::mark_used
mark_used(n) == update_nonce_info_partial(n, None, None, None, Some(TRUE))

\* The four states of the coordinator (spec 4.2) as the code reaches them:
\* Absent = NonceNew; Stale = init(Some(acct)); Ready = Stale + a refresh that
\* read token h1; Spent = Ready + mark_used (a public method of NonceCache).
NonceAbsent == NonceNew
NonceStale == nonce_init(NonceNew, Some(NonceAccount))
NonceReady == update_nonce_info_partial(NonceStale, None, Some("h1"), None, Some(FALSE))
NonceSpent == mark_used(NonceReady)
NonceStates == {NonceAbsent, NonceStale, NonceReady, NonceSpent}

\* ----------------------------------------------------------- instructions
\* An instruction: what it does, with what argument. A transfer also names
\* its destination and the list its amount is element idx of.
Ix(op, src, idx) == [op |-> op, src |-> src, idx |-> idx, dst |-> "none", list |-> "none"]

AdvanceNonceIx == Ix("advance_nonce_account", NonceAccount, 0)

BusinessInstructions == <<Ix("business", "caller", 1), Ix("business", "caller", 2)>>

\* add_nonce_instruction without the check of `used`.
add_nonce_instruction_unchecked(instructions, n) ==
    IF n.nonce_account # NoAccount
    THEN IF n.current_nonce = ZeroHash
         THEN [ok |-> FALSE, instructions |-> instructions, err |-> "Nonce is not ready"]
         ELSE [ok |-> TRUE, instructions |-> Append(instructions, AdvanceNonceIx),
               err |-> ""]
    ELSE [ok |-> TRUE, instructions |-> instructions, err |-> ""]

\* add_nonce_instruction: [ok, instructions, err]
add_nonce_instruction(instructions, n) ==
    IF n.nonce_account # NoAccount
    THEN IF n.used
         THEN [ok |-> FALSE, instructions |-> instructions, err |-> "Nonce is used"]
         ELSE IF n.current_nonce = ZeroHash
              THEN [ok |-> FALSE, instructions |-> instructions, err |-> "Nonce is not ready"]
              ELSE [ok |-> TRUE, instructions |-> Append(instructions, AdvanceNonceIx),
                    err |-> ""]
    ELSE [ok |-> TRUE, instructions |-> instructions, err |-> ""]

\* get_transaction_blockhash never substituting the nonce token.
get_transaction_blockhash_always_recent(n, recent_blockhash) == recent_blockhash

\* get_transaction_blockhash
get_transaction_blockhash(n, recent_blockhash) ==
    IF n.nonce_account # NoAccount THEN n.current_nonce ELSE recent_blockhash

\* compute_budget_instructions without the data-size-limit instruction of a buy.
compute_budget_instructions_no_size_limit(data_size_limit, is_rpc, is_buy) ==
    LET price == IF is_rpc THEN "rpc_unit_price" ELSE "tip_unit_price"
        limit == IF is_rpc THEN "rpc_unit_limit" ELSE "tip_unit_limit"
    IN  <<Ix("set_compute_unit_price", price, 0), Ix("set_compute_unit_limit", limit, 0)>>

\* compute_budget_instructions with the unit limit before the unit price.
compute_budget_instructions_limit_first(data_size_limit, is_rpc, is_buy) ==
    LET price == IF is_rpc THEN "rpc_unit_price" ELSE "tip_unit_price"
        limit == IF is_rpc THEN "rpc_unit_limit" ELSE "tip_unit_limit"
    IN  (IF is_buy
         THEN <<Ix("set_loaded_accounts_data_size_limit", data_size_limit, 0)>>
         ELSE <<>>)
        \o <<Ix("set_compute_unit_limit", limit, 0), Ix("set_compute_unit_price", price, 0)>>

\* compute_budget_instructions, lines 42-52: the instructions built on a miss.
\* The unit price and limit are named, not numbers: "rpc_unit_price" is
\* priority_fee.rpc_unit_price.
compute_budget_instructions(data_size_limit, is_rpc, is_buy) ==
    LET price == IF is_rpc THEN "rpc_unit_price" ELSE "tip_unit_price"
        limit == IF is_rpc THEN "rpc_unit_limit" ELSE "tip_unit_limit"
    IN  (IF is_buy
         THEN <<Ix("set_loaded_accounts_data_size_limit", data_size_limit, 0)>>
         ELSE <<>>)
        \o <<Ix("set_compute_unit_price", price, 0), Ix("set_compute_unit_limit", limit, 0)>>

\* add_compute_budget_instructions: extends the list by compute_budget_instructions
add_compute_budget_instructions(instructions, data_size_limit, is_rpc, is_buy) ==
    instructions \o compute_budget_instructions(data_size_limit, is_rpc, is_buy)

\* The tip transfer of build_transaction with the payer as its destination.
TipIx_to_payer(tip_account, tip_amount) ==
    [op |-> "transfer", src |-> "payer", dst |-> "payer",
     list |-> tip_amount.list, idx |-> tip_amount.idx]

\* The tip transfer of build_transaction (lines 53-57):
\* transfer(payer, tip_account, lamports of tip_amount). tip_amount is
\* element idx of a tip list of the PriorityFee.
TipIx(tip_account, tip_amount) ==
    [op |-> "transfer", src |-> "payer", dst |-> tip_account,
     list |-> tip_amount.list, idx |-> tip_amount.idx]

\* build_transaction going on without the nonce when add_nonce_instruction fails.
assemble_instructions_swallowing(n, is_buy, with_tip, tip_account, tip_amount, data_size_limit) ==
    LET cb == add_compute_budget_instructions(<<>>, data_size_limit, TRUE, is_buy)
        bz == cb \o BusinessInstructions
    IN  [ok |-> TRUE,
         instructions |-> IF with_tip THEN Append(bz, TipIx(tip_account, tip_amount)) ELSE bz,
         err |-> ""]

\* build_transaction with the tip transfer put before the business instructions.
assemble_instructions_tip_first(n, is_buy, with_tip, tip_account, tip_amount, data_size_limit) ==
    LET nz == IF is_buy THEN add_nonce_instruction(<<>>, n)
              ELSE [ok |-> TRUE, instructions |-> <<>>, err |-> ""]
        cb == add_compute_budget_instructions(nz.instructions, data_size_limit, TRUE, is_buy)
        tp == IF with_tip THEN Append(cb, TipIx(tip_account, tip_amount)) ELSE cb
    IN  IF ~nz.ok THEN nz
        ELSE [ok |-> TRUE, instructions |-> tp \o BusinessInstructions, err |-> ""]

\* build_transaction calling add_nonce_instruction for sells as for buys.
assemble_instructions_nonce_for_sells(n, is_buy, with_tip, tip_account, tip_amount, data_size_limit) ==
    LET nz == add_nonce_instruction(<<>>, n)
        cb == add_compute_budget_instructions(nz.instructions, data_size_limit, TRUE, is_buy)
        bz == cb \o BusinessInstructions
    IN  IF ~nz.ok THEN nz
        ELSE [ok |-> TRUE,
              instructions |-> IF with_tip THEN Append(bz, TipIx(tip_account, tip_amount)) ELSE bz,
              err |-> ""]

\* build_transaction up to the tip transfer (lines 36-58): [ok, instructions, err]
assemble_instructions(n, is_buy, with_tip, tip_account, tip_amount, data_size_limit) ==
    LET nz == IF is_buy THEN add_nonce_instruction(<<>>, n)
              ELSE [ok |-> TRUE, instructions |-> <<>>, err |-> ""]
        cb == add_compute_budget_instructions(nz.instructions, data_size_limit, TRUE, is_buy)
        bz == cb \o BusinessInstructions
    IN  IF ~nz.ok THEN nz
        ELSE [ok |-> TRUE,
              instructions |-> IF with_tip THEN Append(bz, TipIx(tip_account, tip_amount)) ELSE bz,
              err |-> ""]

\* ------------------------------------------------------------ Jito client
PollOutcomes == {"ok", "timeout", "other"}

\* The loop body retrying after every failed poll, not only after a time-out.
ConfirmStep_retry_any(attempt, outcome) ==
    IF outcome = "ok" THEN "ok"
    ELSE IF attempt < max_retries THEN "continue"
    ELSE IF outcome = "timeout" THEN "timed_out" ELSE "other"

\* One iteration of the loop of confirm_transaction_with_retry.
ConfirmStep(attempt, outcome) ==
    IF outcome = "ok" THEN "ok"
    ELSE IF outcome = "timeout"
         THEN IF attempt < max_retries THEN "continue" ELSE "timed_out"
         ELSE "other"

\* confirm_transaction_with_retry on the poll outcomes outs[1], outs[2], ...:
\* [res, polls]
RECURSIVE ConfirmLoop(_, _)
ConfirmLoop(outs, attempt) ==
    LET s == ConfirmStep(attempt, outs[attempt + 1])
    IN  IF s = "continue" THEN ConfirmLoop(outs, attempt + 1)
        ELSE [res |-> s, polls |-> attempt + 1]

confirm_transaction_with_retry(outs) == ConfirmLoop(outs, 0)

\* The HTTP exchange of JitoClient::send_transaction.
JitoResponses == {"result", "error", "unparseable", "transport_error"}

\* JitoClient::send_transaction: [ok, polls, err]
jito_send_transaction(resp, outs) ==
    IF resp = "transport_error" THEN [ok |-> FALSE, polls |-> 0, err |-> "transport"]
    ELSE IF resp # "result"
         THEN [ok |-> FALSE, polls |-> 0, err |-> "Jito submission failed"]
         ELSE LET c == confirm_transaction_with_retry(outs)
              IN  [ok |-> c.res = "ok", polls |-> c.polls,
                   err |-> IF c.res = "ok" THEN ""
                           ELSE IF c.res = "timed_out"
                                THEN "Transaction confirmation timed out"
                                ELSE "confirmation failed"]

\* send_transaction of the plain endpoint (SolRpcClient).
default_send_transaction(ok) ==
    [ok |-> ok, polls |-> 0, err |-> IF ok THEN "" ELSE "rpc send failed"]

\* ------------------------------------------------------- racing executor
SwqosTypes == {"Default", "Jito"}
RecentBlockhash == "recent"

RECURSIVE SeqsUpTo(_, _)
SeqsUpTo(S, n) ==
    IF n = 0 THEN {<<>>}
    ELSE LET shorter == SeqsUpTo(S, n - 1)
         IN  shorter \cup {Append(s, x) : s \in {t \in shorter : Len(t) = n - 1}, x \in S}

\* The calls buy_parallel_execute and sell_parallel_execute make.
BuyConfigs ==
    [is_buy : {TRUE}, with_tip : {TRUE}, wait : BOOLEAN,
     clients : SeqsUpTo(SwqosTypes, MaxEndpoints),
     buy_tips : 0..MaxTips, sell_tips : 0..MaxTips, data_size_limit : {"256K"}]
SellConfigs ==
    [is_buy : {FALSE}, with_tip : BOOLEAN, wait : BOOLEAN,
     clients : SeqsUpTo(SwqosTypes, MaxEndpoints),
     buy_tips : 0..MaxTips, sell_tips : 0..MaxTips, data_size_limit : {"0"}]
Configs == BuyConfigs \cup SellConfigs

NoConfig ==
    [is_buy |-> FALSE, with_tip |-> FALSE, wait |-> FALSE, clients |-> <<>>,
     buy_tips |-> 0, sell_tips |-> 0, data_size_limit |-> "0"]

NoTx == [instructions |-> <<>>, blockhash |-> "none", tip_account |-> "none", signatures |-> <<>>]
NoRes == [kind |-> "none", err |-> "", sig |-> None]
NoRet == [kind |-> "none", who |-> 0, msgs |-> <<>>, text |-> "", sig |-> None]

\* parallel.rs:77-89, the two pre-flight checks
PreflightFails(c) ==
    \/ c.is_buy /\ (Len(c.clients) > c.buy_tips \/ c.buy_tips = 0)
    \/ ~c.is_buy /\ ~c.with_tip /\ (Len(c.clients) > c.sell_tips \/ c.sell_tips = 0)

\* parallel.rs:95, the selection rule of the spawn loop
Selected(c, i) == c.with_tip \/ c.clients[i] = "Default"

Started == {i \in Endpoints : tpc[i] # "none"}

\* parallel_execute up to its first await (lines 75-157): pre-flight checks,
\* the spawn loop, the channel and the forwarding tasks.
StartRace(c) ==
    /\ mainPc = "idle"
    /\ cfg' = c
    /\ IF PreflightFails(c)
       THEN /\ mainPc' = "returned"
            /\ ret' = [kind |-> "err", who |-> 0, msgs |-> <<>>, sig |-> None,
                       text |-> "Number of tip clients exceeds the configured tip fees"]
            /\ tpc' = tpc
       ELSE IF Len(c.clients) = 0
            THEN \* mpsc::channel(0) panics
                 /\ mainPc' = "returned"
                 /\ ret' = [kind |-> "panic", who |-> 0, msgs |-> <<>>, sig |-> None,
                            text |-> "mpsc bounded channel requires buffer > 0"]
                 /\ tpc' = tpc
            ELSE /\ mainPc' = "recv"
                 /\ ret' = ret
                 /\ tpc' = [i \in Endpoints |->
                              IF i <= Len(c.clients) /\ Selected(c, i)
                              THEN "spawned" ELSE "none"]
    /\ UNCHANGED <<errors, ttx, tres, chan, arrived, sendOk, tipCalled, sendCalled, polled>>
    /\ UNCHANGED <<nonce, lateVars, jitoVars, cacheVars>>

\* The tip accounts an endpoint's get_tip_account picks from: Jito picks one of
\* JITO_TIP_ACCOUNTS.
TipAccounts(kind) == IF kind = "Jito" THEN {"jito_tip"} ELSE {"default_tip"}

\* SwqosClientTrait::get_tip_account: Result<String>, None standing for Err
\* ("no valid tip accounts found" of the Jito client).
get_tip_account(kind) == {Some(a) : a \in TipAccounts(kind)} \cup {None}

\* Pubkey::from_str(&tip_account_str).unwrap_or_default() (parallel.rs:111):
\* a string that is no public key becomes the default (all-zero) key.
DefaultPubkey == "11111111111111111111111111111111"
PubkeyStrings == {"jito_tip", "default_tip"}
pubkey_from_str(str) == IF str \in PubkeyStrings THEN str ELSE DefaultPubkey

\* VersionedTransaction::try_new(message, &[payer]): the one signature of
\* the transaction, the payer's, over the compiled message.
sign(signer, instructions, blockhash) ==
    [signer |-> signer, instructions |-> instructions, blockhash |-> blockhash]

\* build_transaction handing the transaction to the caller although its
\* assembly failed.
build_transaction_unchecked(n, is_buy, with_tip, tip_account, tip_amount, data_size_limit, compiled) ==
    LET a == assemble_instructions(n, is_buy, with_tip, tip_account, tip_amount, data_size_limit)
        blockhash == IF is_buy THEN get_transaction_blockhash(n, RecentBlockhash)
                     ELSE RecentBlockhash
    IN  IF ~a.ok \/ ~compiled THEN [ok |-> TRUE, tx |-> NoTx, err |-> ""]
        ELSE [ok |-> TRUE, err |-> "",
              tx |-> [instructions |-> a.instructions, blockhash |-> blockhash,
                      tip_account |-> tip_account,
                      signatures |-> <<sign("payer", a.instructions, blockhash)>>]]

\* build_transaction: [ok, tx, err]. `compiled` is whether try_compile and
\* try_new of build_versioned_transaction succeed.
build_transaction(n, is_buy, with_tip, tip_account, tip_amount, data_size_limit, compiled) ==
    LET a == assemble_instructions(n, is_buy, with_tip, tip_account, tip_amount, data_size_limit)
        blockhash == IF is_buy THEN get_transaction_blockhash(n, RecentBlockhash)
                     ELSE RecentBlockhash
    IN  IF ~a.ok THEN [ok |-> FALSE, tx |-> NoTx, err |-> a.err]
        ELSE IF ~compiled THEN [ok |-> FALSE, tx |-> NoTx, err |-> "compile error"]
        ELSE [ok |-> TRUE, err |-> "",
              tx |-> [instructions |-> a.instructions, blockhash |-> blockhash,
                      tip_account |-> tip_account,
                      signatures |-> <<sign("payer", a.instructions, blockhash)>>]]

\* The endpoint task up to the end of build_transaction (parallel.rs:106-128).
TaskBuild(i) ==
    /\ tpc[i] = "spawned"
    /\ tipCalled' = tipCalled \cup {i}
    /\ \E tip_account_str \in get_tip_account(cfg.clients[i]), compiled \in BOOLEAN :
          IF tip_account_str = None
          THEN \* get_tip_account()? returns the error
               /\ tpc' = [tpc EXCEPT ![i] = "done"]
               /\ tres' = [tres EXCEPT ![i] = [kind |-> "err", sig |-> None,
                                               err |-> "no valid tip accounts found"]]
               /\ ttx' = ttx
          ELSE IF i > cfg.buy_tips
          THEN \* priority_fee.buy_tip_fees[i] is out of bounds: the task panics
               /\ tpc' = [tpc EXCEPT ![i] = "done"]
               /\ tres' = [tres EXCEPT ![i] = [kind |-> "panic", sig |-> None,
                                               err |-> "index out of bounds"]]
               /\ ttx' = ttx
          ELSE LET tip_account == pubkey_from_str(tip_account_str[1])
                   tip_amount == [list |-> "buy_tip_fees", idx |-> i]
                   b == build_transaction(nonce, cfg.is_buy, cfg.clients[i] # "Default",
                                          tip_account, tip_amount, cfg.data_size_limit,
                                          compiled)
               IN  IF b.ok
                   THEN /\ tpc' = [tpc EXCEPT ![i] = "built"]
                        /\ ttx' = [ttx EXCEPT ![i] = b.tx]
                        /\ tres' = tres
                   ELSE /\ tpc' = [tpc EXCEPT ![i] = "done"]
                        /\ tres' = [tres EXCEPT ![i] = [kind |-> "err", sig |-> None,
                                                        err |-> b.err]]
                        /\ ttx' = ttx
    /\ UNCHANGED <<cfg, mainPc, ret, errors, chan, arrived, sendOk, sendCalled, polled>>
    /\ UNCHANGED <<nonce, lateVars, jitoVars, cacheVars>>

\* The task's result whatever its send returned.
task_result_ignoring_send_error(tx, r) ==
    IF tx.signatures = <<>>
    THEN [kind |-> "err", err |-> "Transaction has no signatures", sig |-> None]
    ELSE [kind |-> "ok", err |-> "", sig |-> Some(Head(tx.signatures))]

\* The task's result (parallel.rs:130-141): the error of send_transaction, or
\* transaction.signatures.first(); r is what send_transaction returned.
task_result(tx, r) ==
    IF ~r.ok THEN [kind |-> "err", err |-> "send error", sig |-> None]
    ELSE IF tx.signatures = <<>>
         THEN [kind |-> "err", err |-> "Transaction has no signatures", sig |-> None]
         ELSE [kind |-> "ok", err |-> "", sig |-> Some(Head(tx.signatures))]

\* swqos_client.send_transaction(...).await? and the task's result
\* (parallel.rs:130-141).
TaskSend(i) ==
    /\ tpc[i] = "built"
    /\ sendCalled' = sendCalled \cup {i}
    /\ \E r \in (IF cfg.clients[i] = "Jito"
                 THEN {jito_send_transaction(resp, outs) :
                          resp \in JitoResponses, outs \in [1..(max_retries + 1) -> PollOutcomes]}
                 ELSE {default_send_transaction(ok) : ok \in BOOLEAN}) :
          /\ polled' = IF r.polls > 0 THEN polled \cup {i} ELSE polled
          /\ sendOk' = IF r.ok THEN sendOk \cup {i} ELSE sendOk
          /\ tres' = [tres EXCEPT ![i] = task_result(ttx[i], r)]
    /\ tpc' = [tpc EXCEPT ![i] = "done"]
    /\ UNCHANGED <<cfg, mainPc, ret, errors, ttx, chan, arrived, tipCalled>>
    /\ UNCHANGED <<nonce, lateVars, jitoVars, cacheVars>>

\* The forwarding task of endpoint i never handing its result on once the
\* caller has returned.
Forward_blocking(i) ==
    /\ tpc[i] = "done"
    /\ mainPc = "recv"
    /\ tpc' = [tpc EXCEPT ![i] = "forwarded"]
    /\ chan' = Append(chan, i)
    /\ arrived' = Append(arrived, i)
    /\ UNCHANGED <<cfg, mainPc, ret, errors, ttx, tres, sendOk, tipCalled, sendCalled, polled>>
    /\ UNCHANGED <<nonce, lateVars, jitoVars, cacheVars>>

\* The forwarding task of endpoint i (parallel.rs:152-155): handle.await,
\* then tx.send, whose error (receiver dropped) is ignored. The channel has
\* room for one message per endpoint, so the send never waits for room.
Forward(i) ==
    /\ tpc[i] = "done"
    /\ mainPc # "idle"
    /\ ret.kind # "panic"
    /\ tpc' = [tpc EXCEPT ![i] = "forwarded"]
    /\ chan' = IF mainPc = "recv" THEN Append(chan, i) ELSE chan
    /\ arrived' = IF mainPc = "recv" THEN Append(arrived, i) ELSE arrived
    /\ UNCHANGED <<cfg, mainPc, ret, errors, ttx, tres, sendOk, tipCalled, sendCalled, polled>>
    /\ UNCHANGED <<nonce, lateVars, jitoVars, cacheVars>>

\* The message parallel_execute pushes to `errors` for a failed task.
ErrorMessage(r) ==
    IF r.kind = "panic" THEN "Join error" ELSE r.err

\* All senders are dropped: every forwarding task has sent.
ChannelClosed == \A i \in Started : tpc[i] = "forwarded"

\* rx.recv().await of the branch !wait_transaction_confirmed (lines 162-171)
RecvNoWait ==
    /\ mainPc = "recv"
    /\ ~cfg.wait
    /\ \/ /\ chan # <<>>
          /\ LET i == Head(chan) IN
             ret' = IF tres[i].kind = "ok"
                    THEN [kind |-> "sig", who |-> i, msgs |-> <<>>, text |-> "",
                          sig |-> tres[i].sig]
                    ELSE [kind |-> "err", who |-> 0, msgs |-> <<>>, sig |-> None,
                          text |-> "No transaction signature available"]
          /\ chan' = Tail(chan)
       \/ /\ chan = <<>>
          /\ ChannelClosed
          /\ ret' = [kind |-> "err", who |-> 0, msgs |-> <<>>, sig |-> None,
                     text |-> "No transaction signature available"]
          /\ chan' = chan
    /\ mainPc' = "returned"
    /\ UNCHANGED <<cfg, errors, tpc, ttx, tres, arrived, sendOk, tipCalled, sendCalled, polled>>
    /\ UNCHANGED <<nonce, lateVars, jitoVars, cacheVars>>

\* One rx.recv().await of the loop of lines 173-192
RecvWait ==
    /\ mainPc = "recv"
    /\ cfg.wait
    /\ \/ /\ chan # <<>>
          /\ chan' = Tail(chan)
          /\ LET i == Head(chan) IN
             IF tres[i].kind = "ok"
             THEN /\ ret' = [kind |-> "sig", who |-> i, msgs |-> <<>>, text |-> "",
                             sig |-> tres[i].sig]
                  /\ mainPc' = "returned"
                  /\ errors' = errors
             ELSE /\ errors' = Append(errors, ErrorMessage(tres[i]))
                  /\ UNCHANGED <<ret, mainPc>>
       \/ /\ chan = <<>>
          /\ ChannelClosed
          /\ ret' = [kind |-> "err", who |-> 0, msgs |-> errors, sig |-> None,
                     text |-> "All transactions failed"]
          /\ mainPc' = "returned"
          /\ UNCHANGED <<chan, errors>>
    /\ UNCHANGED <<cfg, tpc, ttx, tres, arrived, sendOk, tipCalled, sendCalled, polled>>
    /\ UNCHANGED <<nonce, lateVars, jitoVars, cacheVars>>

\* --------------------------------- JitoClient::send_transaction, stepwise
SendCalls == 1..MaxSends

\* send_transaction up to the check of the submission result (jito.rs:62-108)
JitoSubmit(c, resp) ==
    /\ jpc[c] = "idle"
    /\ IF resp = "result"
       THEN /\ jpc' = [jpc EXCEPT ![c] = "confirm"]
            /\ jres' = jres
       ELSE /\ jpc' = [jpc EXCEPT ![c] = "done"]
            /\ jres' = [jres EXCEPT ![c] = jito_send_transaction(resp, <<>>).err]
    /\ UNCHANGED <<jattempt, jhist>>
    /\ UNCHANGED <<raceVars, nonce, lateVars, cacheVars>>

\* One iteration of the loop of confirm_transaction_with_retry
\* (jito.rs:175-208): a poll with the given outcome, then return or retry.
JitoPoll(c, outcome) ==
    /\ jpc[c] = "confirm"
    /\ jhist' = [jhist EXCEPT ![c] = Append(@, outcome)]
    /\ LET s == ConfirmStep(jattempt[c], outcome) IN
       IF s = "continue"
       THEN /\ jattempt' = [jattempt EXCEPT ![c] = @ + 1]
            /\ UNCHANGED <<jpc, jres>>
       ELSE /\ jpc' = [jpc EXCEPT ![c] = "done"]
            /\ jres' = [jres EXCEPT ![c] = s]
            /\ jattempt' = jattempt
    /\ UNCHANGED <<raceVars, nonce, lateVars, cacheVars>>

\* ------------------------------------------------------------------ caches
Caches == {"instruction", "pda", "ata", "compute_budget"}

\* Cache keys. The keys of COMPUTE_BUDGET_CACHE are ComputeBudgetCacheKey.
Keys == {<<"k1">>, <<"k2">>, <<"k3">>}
ComputeBudgetKeys ==
    {<<"256K", TRUE, TRUE>>, <<"256K", FALSE, TRUE>>, <<"0", TRUE, FALSE>>, <<"0", FALSE, FALSE>>}
KeysOf(c) == IF c = "compute_budget" THEN ComputeBudgetKeys ELSE Keys

\* The keys whose PDA derivation finds no address (compute_fn returns None).
PdaNoneKeys == {<<"k3">>}

\* compute_fn of a call: a pure function of the cache and the key.
compute_fn(c, k) ==
    IF c = "compute_budget" THEN Some(compute_budget_instructions(k[1], k[2], k[3]))
    ELSE IF c = "pda" /\ k \in PdaNoneKeys THEN None
    ELSE Some(<<c, k>>)

\* CLruCache::peek: the entry's value, the recency order untouched.
peek(s, k) ==
    IF \E j \in 1..Len(s) : s[j].key = k
    THEN Some((CHOOSE e \in {s[j] : j \in 1..Len(s)} : e.key = k).val)
    ELSE None

Without(s, k) == SelectSeq(s, LAMBDA e : e.key # k)

\* CLruCache::put: a present key is overwritten and moved to the front; a new
\* key goes to the front, the back entry being dropped from a full cache.
\* An unbounded map (DashMap::insert) is put with no capacity: cap = -1.
put(s, k, v, cap) ==
    LET e == [key |-> k, val |-> v]
    IN  IF peek(s, k) # None THEN <<e>> \o Without(s, k)
        ELSE IF cap >= 0 /\ Len(s) >= cap THEN <<e>> \o SubSeq(s, 1, cap - 1)
        ELSE <<e>> \o s

\* The key put(s, k, v, cap) drops, if any.
Evicts(s, k, cap) ==
    IF peek(s, k) = None /\ cap >= 0 /\ Len(s) >= cap /\ Len(s) > 0
    THEN {s[Len(s)].key} ELSE {}

CapacityOf(c) == IF c = "compute_budget" THEN -1 ELSE CacheCapacity

\* Whether a computed result is stored: get_cached_pda stores Some only.
Stores(c, r) == r # None

\* get_or_compute without the insertion after a miss.
get_or_compute_never_stores(c, s, k) ==
    LET cached == peek(s, k)
    IN  IF cached # None THEN [hit |-> TRUE, ret |-> cached, cache |-> s]
        ELSE [hit |-> FALSE, ret |-> compute_fn(c, k), cache |-> s]

\* get_cached_instructions, get_cached_pda,
\* _get_associated_token_address_with_program_id_fast and
\* compute_budget_instructions, called by one thread: [hit, ret, cache]
get_or_compute(c, s, k) ==
    LET cached == peek(s, k)
        r == compute_fn(c, k)
    IN  IF cached # None THEN [hit |-> TRUE, ret |-> cached, cache |-> s]
        ELSE [hit |-> FALSE, ret |-> r,
              cache |-> IF Stores(c, r) THEN put(s, k, r[1], CapacityOf(c)) ELSE s]

Call(c, k) ==
    /\ calls < MaxCalls
    /\ calls' = calls + 1
    /\ LET g == get_or_compute(c, cache[c], k) IN
       /\ cache' = [cache EXCEPT ![c] = g.cache]
       /\ computed' = IF g.hit THEN computed
                      ELSE [computed EXCEPT ![c][k] = @ + 1]
       /\ evicted' = IF g.hit \/ g.ret = None THEN evicted
                     ELSE [evicted EXCEPT ![c] =
                             [x \in KeysOf(c) |->
                                IF x \in Evicts(cache[c], k, CapacityOf(c)) THEN @[x] + 1 ELSE @[x]]]
       /\ lastCall' = [cache |-> c, key |-> k, hit |-> g.hit, ret |-> g.ret,
                       before |-> peek(cache[c], k)]
       /\ useOrder' = IF g.hit \/ Stores(c, g.ret)
                      THEN [useOrder EXCEPT ![c] = <<k>> \o SelectSeq(@, LAMBDA x : x # k)]
                      ELSE useOrder
    /\ UNCHANGED <<raceVars, nonce, lateVars, jitoVars, rent, lastCreate, concVars>>

get_cached_instructions == \E k \in Keys : Call("instruction", k)
get_cached_pda == \E k \in Keys : Call("pda", k)
get_associated_token_address_fast == \E k \in Keys : Call("ata", k)
compute_budget_instructions_cached == \E k \in ComputeBudgetKeys : Call("compute_budget", k)

\* ------------------------------------- seed-mode token accounts (seed.rs)
\* Values of get_minimum_balance_for_rent_exemption.
RentValues == {"rent_a", "rent_b"}
\* seed.rs:11-12: both statics start as None.
NoRent == [spl_token |-> None, spl_token_2022 |-> None]

Mints == {"mint", "wsol"}
TokenPrograms == {"spl_token", "spl_token_2022"}
\* InstructionCacheKey::CreateAssociatedTokenAccount: the owner is the payer
\* or another wallet. An AtaCacheKey is [wallet_address, mint, token_program,
\* use_seed].
AccountKeys ==
    [payer : {"payer"}, owner : {"payer", "other"}, mint : Mints,
     token_program : TokenPrograms, use_seed : BOOLEAN]

\* The condition of fast_fn.rs:104-107 and 247-250.
SeedEligible(k) == k.use_seed /\ k.mint # "wsol" /\ k.token_program = "spl_token"

\* update_rents: the two fetches and the two writes. A failed fetch returns
\* early, leaving the statics it did not reach untouched.
update_rents(r, fetched1, fetched2) ==
    IF fetched1 = None THEN r
    ELSE IF fetched2 = None THEN [r EXCEPT !.spl_token = fetched1]
    ELSE [spl_token |-> fetched1, spl_token_2022 |-> fetched2]

\* The seed of seed.rs:60-72 and 97-108: the low 32 bits of the FNV hash of
\* the mint, as 8 hexadecimal digits.
mint_seed(mint) == <<"fnv32hex", mint>>

\* Pubkey::create_with_seed(base, seed, owner): an address that is a hash of
\* the three.
create_with_seed(base, seed, program) == <<"with_seed", base, seed, program>>

\* create_associated_token_account_use_seed: [ok, val]. The account is
\* derived from the payer (seed.rs:73); both instructions name it.
create_associated_token_account_use_seed(r, k) ==
    LET is_2022_token == k.token_program = "spl_token_2022"
        lamports == IF is_2022_token THEN r.spl_token_2022 ELSE r.spl_token
        ata_like == create_with_seed(k.payer, mint_seed(k.mint), k.token_program)
    IN  IF lamports = None THEN [ok |-> FALSE, val |-> <<>>]
        ELSE [ok |-> TRUE,
              val |-> <<Ix("create_account_with_seed", ata_like, lamports[1]),
                        Ix("initialize_account3", ata_like, k.mint)>>]

\* The address computed on a miss (fast_fn.rs:247-264), k an AtaCacheKey:
\* get_associated_token_address_with_program_id_use_seed (seed.rs:92-114),
\* which derives the account from the wallet address, or spl's
\* get_associated_token_address_with_program_id.
ata_address(k) ==
    IF SeedEligible(k)
    THEN LET token_program == IF k.token_program = "spl_token_2022"
                              THEN "spl_token_2022" ELSE "spl_token"
         IN  create_with_seed(k.wallet_address, mint_seed(k.mint), token_program)
    ELSE <<"ata", k.wallet_address, k.mint, k.token_program>>

\* _get_associated_token_address_with_program_id_fast: [ret, cache]
get_associated_token_address_with_program_id_fast(s, k) ==
    LET cached == peek(s, k)
    IN  IF cached # None THEN [ret |-> cached[1], cache |-> s]
        ELSE [ret |-> ata_address(k), cache |-> put(s, k, ata_address(k), CacheCapacity)]

\* The closures of fast_fn.rs:110-113 and 116-134 given the state of the ATA
\* cache: [ok, val, ata]. ok = FALSE is the panic of the unwrap.
create_instruction_compute(r, ata, k) ==
    IF SeedEligible(k)
    THEN LET c == create_associated_token_account_use_seed(r, k)
         IN  [ok |-> c.ok, val |-> c.val, ata |-> ata]
    ELSE LET a == get_associated_token_address_with_program_id_fast(
                      ata, [wallet_address |-> k.owner, mint |-> k.mint,
                            token_program |-> k.token_program, use_seed |-> FALSE])
         IN  [ok |-> TRUE, ata |-> a.cache,
              val |-> <<Ix("create_associated_token_account_idempotent", a.ret, k.mint)>>]

NoCreate == [key |-> <<>>, hit |-> FALSE, ok |-> FALSE, ret |-> <<>>]

\* _create_associated_token_account_idempotent_fast
CreateAssociatedTokenAccount(k) ==
    /\ calls < MaxCalls
    /\ calls' = calls + 1
    /\ LET cached == peek(cache["instruction"], k)
           c == create_instruction_compute(rent, cache["ata"], k)
       IN  IF cached # None
           THEN /\ cache' = cache
                /\ lastCreate' = [key |-> k, hit |-> TRUE, ok |-> TRUE, ret |-> cached[1]]
           ELSE IF ~c.ok
           THEN /\ cache' = cache
                /\ lastCreate' = [key |-> k, hit |-> FALSE, ok |-> FALSE, ret |-> <<>>]
           ELSE /\ cache' = [cache EXCEPT !["ata"] = c.ata,
                                          !["instruction"] = put(@, k, c.val, CacheCapacity)]
                /\ lastCreate' = [key |-> k, hit |-> FALSE, ok |-> TRUE, ret |-> c.val]
    /\ UNCHANGED <<computed, evicted, lastCall, useOrder, rent>>
    /\ UNCHANGED <<raceVars, nonce, lateVars, jitoVars, concVars>>

\* One run of update_rents (start_rent_updater runs it every hour).
UpdateRents(fetched1, fetched2) ==
    /\ rent' = update_rents(rent, fetched1, fetched2)
    /\ UNCHANGED <<cache, computed, evicted, lastCall, useOrder, calls, lastCreate>>
    /\ UNCHANGED <<raceVars, nonce, lateVars, jitoVars, concVars>>


\* ------------------------------ get_or_compute, thread by thread, lock by lock
Threads == 1..MaxThreads
\* The keys the threads ask for: one whose compute_fn yields a value and the
\* PDA key whose derivation yields None.
ConcKeysOf(c) == IF c = "compute_budget" THEN {<<"256K", TRUE, TRUE>>} ELSE {<<"k1">>, <<"k3">>}
NoCall == [c |-> "none", k |-> <<>>]

Top(t) == frames[t][Len(frames[t])]
SetTopPc(t, pc) == [frames EXCEPT ![t][Len(frames[t])].pc = pc]
OtherVarsOfConc ==
    <<evicted, lastCall, useOrder, calls, rent, lastCreate, raceVars, nonce, lateVars, jitoVars>>

\* A thread calls get_cached_instructions, get_cached_pda,
\* _get_associated_token_address_with_program_id_fast or compute_budget_instructions.
ThreadCall(t, c, k) ==
    /\ frames[t] = <<>> /\ tret[t] = None
    /\ frames' = [frames EXCEPT ![t] = <<[c |-> c, k |-> k, pc |-> "begin"]>>]
    /\ tcall' = [tcall EXCEPT ![t] = [c |-> c, k |-> k]]
    /\ UNCHANGED <<cache, computed, tret, lock, writes, OtherVarsOfConc>>

\* `let cache = X_CACHE.read();`
AcquireRead(t) ==
    /\ frames[t] # <<>> /\ Top(t).pc = "begin"
    /\ lock[Top(t).c].writer = 0
    /\ lock' = [lock EXCEPT ![Top(t).c].readers = @ \cup {t}]
    /\ frames' = SetTopPc(t, "reading")
    /\ UNCHANGED <<cache, computed, tcall, tret, writes, OtherVarsOfConc>>

\* The return of a frame with value v (an Option): the thread's call returns,
\* or the closure of the instruction cache goes on with the address.
ReturnFrom(t, v) ==
    IF Len(frames[t]) = 1
    THEN /\ frames' = [frames EXCEPT ![t] = <<>>]
         /\ tret' = [tret EXCEPT ![t] = Some(v)]
    ELSE /\ frames' = [frames EXCEPT ![t] = <<[@[1] EXCEPT !.pc = "store"]>>]
         /\ tret' = tret

\* The lookup with the read guard kept alive across compute_fn after a miss.
PeekKeepsGuard(t) ==
    /\ frames[t] # <<>> /\ Top(t).pc = "reading"
    /\ LET cached == peek(cache[Top(t).c], Top(t).k) IN
       IF cached # None
       THEN lock' = [lock EXCEPT ![Top(t).c].readers = @ \ {t}] /\ ReturnFrom(t, cached)
       ELSE lock' = lock /\ frames' = SetTopPc(t, "compute") /\ tret' = tret
    /\ UNCHANGED <<cache, computed, tcall, writes, OtherVarsOfConc>>

\* `cache.peek(&cache_key)` and the end of the block of the read guard: a hit
\* returns the clone, a miss goes on to compute_fn.
PeekRelease(t) ==
    /\ frames[t] # <<>> /\ Top(t).pc = "reading"
    /\ lock' = [lock EXCEPT ![Top(t).c].readers = @ \ {t}]
    /\ LET cached == peek(cache[Top(t).c], Top(t).k) IN
       IF cached # None THEN ReturnFrom(t, cached)
       ELSE frames' = SetTopPc(t, "compute") /\ tret' = tret
    /\ UNCHANGED <<cache, computed, tcall, writes, OtherVarsOfConc>>

\* `let instruction = compute_fn();` The closure of the instruction cache
\* (fast_fn.rs:116-134) calls get_associated_token_address_with_program_id_fast.
Compute(t) ==
    /\ frames[t] # <<>> /\ Top(t).pc = "compute"
    /\ computed' = [computed EXCEPT ![Top(t).c][Top(t).k] = @ + 1]
    /\ IF Top(t).c = "instruction"
       THEN /\ frames' = [frames EXCEPT ![t] =
                            <<[Top(t) EXCEPT !.pc = "nested"],
                              [c |-> "ata", k |-> Top(t).k, pc |-> "begin"]>>]
            /\ tret' = tret
       ELSE IF Stores(Top(t).c, compute_fn(Top(t).c, Top(t).k))
       THEN frames' = SetTopPc(t, "store") /\ tret' = tret
       ELSE ReturnFrom(t, compute_fn(Top(t).c, Top(t).k))
    /\ UNCHANGED <<cache, tcall, lock, writes, OtherVarsOfConc>>

\* `let mut cache = X_CACHE.write();`
AcquireWrite(t) ==
    /\ frames[t] # <<>> /\ Top(t).pc = "store"
    /\ lock[Top(t).c].writer = 0 /\ lock[Top(t).c].readers = {}
    /\ lock' = [lock EXCEPT ![Top(t).c].writer = t]
    /\ frames' = SetTopPc(t, "writing")
    /\ UNCHANGED <<cache, computed, tcall, tret, writes, OtherVarsOfConc>>

\* `cache.put(cache_key, value)`, the end of the block of the write guard and
\* the return of the computed value.
PutRelease(t) ==
    /\ frames[t] # <<>> /\ Top(t).pc = "writing"
    /\ LET c == Top(t).c
           k == Top(t).k
           v == compute_fn(c, k)
       IN  /\ cache' = [cache EXCEPT ![c] = put(@, k, v[1], CapacityOf(c))]
           /\ writes' = writes \cup {<<c, k, v[1]>>}
           /\ lock' = [lock EXCEPT ![c].writer = 0]
           /\ ReturnFrom(t, v)
    /\ UNCHANGED <<computed, tcall, OtherVarsOfConc>>

ThreadStep(t) ==
    \/ \E c \in Caches : \E k \in ConcKeysOf(c) : ThreadCall(t, c, k)
    \/ AcquireRead(t)
    \/ PeekRelease(t)
    \/ Compute(t)
    \/ AcquireWrite(t)
    \/ PutRelease(t)


\* ------------------------------------------ the nonce state and its callers
\* The strings NonceCache::init is called with: none, the text of a public
\* key, and a text Pubkey::from_str rejects.
InitArgs == {None, Some(NonceAccount), Some("not-a-pubkey")}

\* nonce_account_str.and_then(|s| Pubkey::from_str(&s).ok())  (nonce_cache.rs:52)
parse_nonce_account(arg) == IF arg # None /\ arg[1] = NonceAccount THEN arg ELSE None

\* NonceCache::init called by the SDK's user.
NonceInit(arg) ==
    /\ nonce' = nonce_init(nonce, parse_nonce_account(arg))
    /\ UNCHANGED <<raceVars, jitoVars, cacheVars, lateVars>>

\* NonceCache::mark_used called by the SDK's user.
MarkUsed ==
    /\ nonce' = mark_used(nonce)
    /\ UNCHANGED <<raceVars, jitoVars, cacheVars, lateVars>>

\* The arguments update_nonce_info_partial is called with, each of them
\* absent or present.
UpdateArgs ==
    [nonce_account : {None, Some(NonceAccount)},
     current_nonce : {None} \cup {Some(h) : h \in Tokens \cup {ZeroHash}},
     next_buy_time : {None, Some(0), Some(1)},
     used : {None, Some(FALSE), Some(TRUE)}]

\* NonceCache::update_nonce_info_partial called by the SDK's user.
UpdateNonceInfoPartial(a) ==
    /\ nonce' = update_nonce_info_partial(nonce, a.nonce_account, a.current_nonce,
                                          a.next_buy_time, a.used)
    /\ UNCHANGED <<raceVars, jitoVars, cacheVars, nonceEnvVars, lookupVars, entry, pct, snap>>

\* NonceCache::get_nonce_info called by the SDK's user.
GetNonceInfo ==
    /\ snap' = Some(get_nonce_info(nonce))
    /\ UNCHANGED <<raceVars, nonce, jitoVars, cacheVars, nonceEnvVars, lookupVars, entry, pct>>

\* The nonce account on the ledger gets the token tok: the account is
\* initialized, or a transaction that advances the nonce lands.
LedgerAdvance(tok) ==
    /\ tok # ledger
    /\ ledger' = tok
    /\ UNCHANGED <<raceVars, nonce, jitoVars, cacheVars, refresh, lookupVars, entry, pct, snap>>

\* What rpc.get_account and account.state() give for the ledger state l:
\* an RPC error, or what the ledger holds.
RpcOutcomes(l) == {"rpc_error", l}

NoRefresh == [pc |-> "idle", got |-> "none", spent |-> FALSE, res |-> "none"]

\* fetch_nonce_info_use_rpc up to the match on the account state (lines
\* 105-108): nonce_account.unwrap() panics when no account is configured;
\* an RPC error, or a state that is not Initialized, ends the call with Ok.
\* `spent` records the `used` flag the call found.
RefreshStart(r, outcome) ==
    /\ refresh[r].pc = "idle"
    /\ outcome \in RpcOutcomes(ledger)
    /\ refresh' = [refresh EXCEPT ![r] =
          IF nonce.nonce_account = NoAccount
          THEN [pc |-> "idle", got |-> "none", spent |-> nonce.used, res |-> "panic"]
          ELSE IF outcome \in Tokens
          THEN [pc |-> "fetched", got |-> outcome, spent |-> nonce.used, res |-> "none"]
          ELSE [pc |-> "idle", got |-> outcome, spent |-> nonce.used, res |-> "ok"]]
    /\ UNCHANGED <<raceVars, nonce, jitoVars, cacheVars, ledger, lookupVars, entry, pct, snap>>

\* Lines 109-111: get_nonce_info (its own lock) and the comparison of the
\* stored token with the one read.
RefreshCompare(r) ==
    /\ refresh[r].pc = "fetched"
    /\ refresh' = [refresh EXCEPT ![r] =
          IF nonce.current_nonce # refresh[r].got
          THEN [@ EXCEPT !.pc = "update"]
          ELSE [@ EXCEPT !.pc = "idle", !.res = "ok"]]
    /\ UNCHANGED <<raceVars, nonce, jitoVars, cacheVars, ledger, lookupVars, entry, pct, snap>>

\* The update of a refresh leaving the used flag as it is.
RefreshUpdate_keeping_used(r) ==
    /\ refresh[r].pc = "update"
    /\ nonce' = update_nonce_info_partial(nonce, None, Some(refresh[r].got), None, None)
    /\ refresh' = [refresh EXCEPT ![r] = [@ EXCEPT !.pc = "idle", !.res = "ok"]]
    /\ UNCHANGED <<raceVars, jitoVars, cacheVars, ledger, lookupVars, entry, pct, snap>>

\* Lines 112-117: update_nonce_info_partial(None, Some(blockhash), None,
\* Some(false)), then Ok(()).
RefreshUpdate(r) ==
    /\ refresh[r].pc = "update"
    /\ nonce' = update_nonce_info_partial(nonce, None, Some(refresh[r].got), None, Some(FALSE))
    /\ refresh' = [refresh EXCEPT ![r] = [@ EXCEPT !.pc = "idle", !.res = "ok"]]
    /\ UNCHANGED <<raceVars, jitoVars, cacheVars, ledger, lookupVars, entry, pct, snap>>

\* ---------------------------------------------------------- lookup registry
LookupAddresses == {"lut1", "lut2"}
\* The member lists a table is registered with.
MemberLists == {<<"k1">>, <<"k1", "k2">>}

\* AddressLookupTableAccount { key, addresses }
Table(key, addresses) == [key |-> key, addresses |-> addresses]

NoLookupCall == [pc |-> "idle", addr |-> "none", table |-> None]
NoResolve == [addr |-> "none", table |-> Table("none", <<>>)]

\* AddressLookupTableCache::get_table_content on the map tabs
get_table_content(tabs, a) ==
    IF tabs[a] # None /\ tabs[a][1].address_lookup_table # None
    THEN tabs[a][1].address_lookup_table[1]
    ELSE Table(a, <<>>)

\* add_or_update_table never replacing the content of an entry that exists.
AddOrUpdateTable_keeping_old(t, a, table) ==
    /\ lkp[t].pc = "idle"
    /\ IF tables[a] # None
       THEN /\ tables' = tables
            /\ lhist' = IF table # None
                        THEN [lhist EXCEPT !.registered = @ \cup {<<a, table[1]>>}]
                        ELSE lhist
            /\ lkp' = lkp
       ELSE /\ lkp' = [lkp EXCEPT ![t] = [pc |-> "insert", addr |-> a, table |-> table]]
            /\ UNCHANGED <<tables, lhist>>
    /\ UNCHANGED <<raceVars, nonce, jitoVars, cacheVars, nonceEnvVars, entry, pct, snap>>

\* add_or_update_table, lines 37-42: get_mut, and the update of an entry
\* that exists, under the entry's lock; when there is no entry the call goes
\* on to insert, the lock released.
AddOrUpdateTable(t, a, table) ==
    /\ lkp[t].pc = "idle"
    /\ IF tables[a] # None
       THEN /\ tables' = IF table # None
                         THEN [tables EXCEPT ![a] =
                                  Some([@[1] EXCEPT !.address_lookup_table = table])]
                         ELSE tables
            /\ lhist' = IF table # None
                        THEN [lhist EXCEPT !.registered = @ \cup {<<a, table[1]>>}]
                        ELSE lhist
            /\ lkp' = lkp
       ELSE /\ lkp' = [lkp EXCEPT ![t] = [pc |-> "insert", addr |-> a, table |-> table]]
            /\ UNCHANGED <<tables, lhist>>
    /\ UNCHANGED <<raceVars, nonce, jitoVars, cacheVars, nonceEnvVars, entry, pct, snap>>

\* add_or_update_table, lines 43-50: tables.insert of a new entry.
InsertTable(t) ==
    /\ lkp[t].pc = "insert"
    /\ tables' = [tables EXCEPT ![lkp[t].addr] =
                     Some([lookup_table_address |-> Some(lkp[t].addr),
                           address_lookup_table |-> lkp[t].table])]
    /\ lhist' = IF lkp[t].table # None
                THEN [lhist EXCEPT !.registered = @ \cup {<<lkp[t].addr, lkp[t].table[1]>>}]
                ELSE lhist
    /\ lkp' = [lkp EXCEPT ![t] = NoLookupCall]
    /\ UNCHANGED <<raceVars, nonce, jitoVars, cacheVars, nonceEnvVars, entry, pct, snap>>

\* remove_table
RemoveTable(a) ==
    /\ tables' = [tables EXCEPT ![a] = None]
    /\ UNCHANGED <<raceVars, nonce, jitoVars, cacheVars, nonceEnvVars, lkp, lhist, entry, pct, snap>>

\* update_table_content
UpdateTableContent(a, table) ==
    /\ tables[a] # None
    /\ tables' = [tables EXCEPT ![a] = Some([@[1] EXCEPT !.address_lookup_table = Some(table)])]
    /\ lhist' = [lhist EXCEPT !.registered = @ \cup {<<a, table>>}]
    /\ UNCHANGED <<raceVars, nonce, jitoVars, cacheVars, nonceEnvVars, lkp, entry, pct, snap>>

\* A call of get_table_content (get_address_lookup_table_account)
GetTableContent(a) ==
    /\ lhist' = [lhist EXCEPT !.resolved = [addr |-> a, table |-> get_table_content(tables, a)]]
    /\ UNCHANGED <<raceVars, nonce, jitoVars, cacheVars, nonceEnvVars, tables, lkp, entry, pct, snap>>

\* ------------------------------ build_transaction, nonce read by nonce read
\* build_transaction reads the nonce state twice, each time under its own
\* acquisition of the mutex: add_nonce_instruction (line 40) and
\* get_transaction_blockhash (line 62). The endpoint task up to line 58 of
\* transaction_builder.rs: tip account and tip amount (parallel.rs:110-112),
\* then the instructions, the nonce-advance instruction first.
TaskInstructions(i) ==
    /\ tpc[i] = "spawned"
    /\ tipCalled' = tipCalled \cup {i}
    /\ \E tip_account_str \in get_tip_account(cfg.clients[i]) :
          IF tip_account_str = None
          THEN /\ tpc' = [tpc EXCEPT ![i] = "done"]
               /\ tres' = [tres EXCEPT ![i] = [kind |-> "err", sig |-> None,
                                               err |-> "no valid tip accounts found"]]
               /\ ttx' = ttx
          ELSE IF i > cfg.buy_tips
          THEN /\ tpc' = [tpc EXCEPT ![i] = "done"]
               /\ tres' = [tres EXCEPT ![i] = [kind |-> "panic", sig |-> None,
                                               err |-> "index out of bounds"]]
               /\ ttx' = ttx
          ELSE LET tip_account == pubkey_from_str(tip_account_str[1])
                   tip_amount == [list |-> "buy_tip_fees", idx |-> i]
                   a == assemble_instructions(nonce, cfg.is_buy, cfg.clients[i] # "Default",
                                              tip_account, tip_amount, cfg.data_size_limit)
               IN  IF a.ok
                   THEN /\ tpc' = [tpc EXCEPT ![i] = "instructions"]
                        /\ ttx' = [ttx EXCEPT ![i] = [instructions |-> a.instructions,
                                                      blockhash |-> "none",
                                                      tip_account |-> tip_account,
                                                      signatures |-> <<>>]]
                        /\ tres' = tres
                   ELSE /\ tpc' = [tpc EXCEPT ![i] = "done"]
                        /\ tres' = [tres EXCEPT ![i] = [kind |-> "err", sig |-> None,
                                                        err |-> a.err]]
                        /\ ttx' = ttx
    /\ UNCHANGED <<cfg, mainPc, ret, errors, chan, arrived, sendOk, sendCalled, polled>>
    /\ UNCHANGED <<nonce, lateVars, jitoVars, cacheVars>>

\* The rest of build_transaction (lines 60-77): the blockhash, read from the
\* nonce state as it is now, then build_versioned_transaction.
TaskBlockhash(i) ==
    /\ tpc[i] = "instructions"
    /\ \E compiled \in BOOLEAN :
          LET blockhash == IF cfg.is_buy THEN get_transaction_blockhash(nonce, RecentBlockhash)
                           ELSE RecentBlockhash
          IN  IF compiled
              THEN /\ tpc' = [tpc EXCEPT ![i] = "built"]
                   /\ ttx' = [ttx EXCEPT ![i] =
                                [@ EXCEPT !.blockhash = blockhash,
                                          !.signatures = <<sign("payer", ttx[i].instructions,
                                                                blockhash)>>]]
                   /\ tres' = tres
              ELSE /\ tpc' = [tpc EXCEPT ![i] = "done"]
                   /\ ttx' = [ttx EXCEPT ![i] = NoTx]
                   /\ tres' = [tres EXCEPT ![i] = [kind |-> "err", sig |-> None,
                                                   err |-> "compile error"]]
    /\ UNCHANGED <<cfg, mainPc, ret, errors, chan, arrived, sendOk, tipCalled, sendCalled, polled>>
    /\ UNCHANGED <<nonce, lateVars, jitoVars, cacheVars>>

\* ------------------------------------------- entry points of the executor
EntryPoints == {"buy", "buy_with_tip", "sell", "sell_with_tip"}
BuyEntryPoints == {"buy", "buy_with_tip"}

\* The arguments of a call: whether params.rpc is Some, the trade amount
\* (sol_amount of a buy, the optional token_amount of a sell) and whether the
\* protocol parameters are of the instruction builder's type.
EntryParams ==
    {p \in [op : EntryPoints, rpc : BOOLEAN, amount : {None, Some(0), Some(1)},
            params_ok : BOOLEAN] :
        p.op \in BuyEntryPoints => p.amount # None}

NoEntry ==
    [pc |-> "idle", op |-> "none", rpc |-> FALSE, amount |-> None, params_ok |-> FALSE,
     ret |-> "none"]

\* PumpFunInstructionBuilder::build_buy_instructions and
\* build_sell_instructions, their parameter validation: "ok" or the error.
build_instructions(p) ==
    IF ~p.params_ok THEN "Invalid protocol params for PumpFun"
    ELSE IF p.amount = None THEN "Amount token is required"
    ELSE IF p.amount = Some(0) THEN "Amount cannot be zero"
    ELSE "ok"

\* The entry point up to its call of buy_parallel_execute or
\* sell_parallel_execute: buy and sell check params.rpc first, all four
\* build the instructions.
EntryCall(p) ==
    /\ entry.pc = "idle"
    /\ mainPc = "idle"
    /\ LET err == IF p.op \in {"buy", "sell"} /\ ~p.rpc THEN "RPC is not set"
                  ELSE build_instructions(p)
       IN  entry' = [pc |-> IF err = "ok" THEN "built" ELSE "returned", op |-> p.op,
                     rpc |-> p.rpc, amount |-> p.amount, params_ok |-> p.params_ok,
                     ret |-> IF err = "ok" THEN "none" ELSE err]
    /\ UNCHANGED <<raceVars, nonce, jitoVars, cacheVars, nonceEnvVars, lookupVars, pct, snap>>

\* The parallel_execute calls an entry point makes: buy_with_tip and
\* sell_with_tip set wait_transaction_confirmed, sell_with_tip sets with_tip.
EntryConfigs(e) ==
    {c \in Configs :
        /\ c.is_buy = (e.op \in BuyEntryPoints)
        /\ e.op \in {"buy_with_tip", "sell_with_tip"} => c.wait
        /\ e.op = "sell_with_tip" => c.with_tip}

\* The entry point calling buy_parallel_execute or sell_parallel_execute.
EntryRace(c) ==
    /\ entry.pc = "built"
    /\ c \in EntryConfigs(entry)
    /\ StartRace(c)

\* The entry point after the race: `?` on its result, then the analysis of
\* the transaction over the RPC client (buy, sell, buy_with_tip, which looks
\* for its RPC client only now) or the estimated result (sell_with_tip).
EntryFinish(analysis_ok) ==
    /\ entry.pc = "built"
    /\ mainPc = "returned"
    /\ entry' = [entry EXCEPT !.pc = "returned", !.ret =
          IF ret.kind # "sig" THEN "race error"
          ELSE IF entry.op = "sell_with_tip" THEN "ok"
          ELSE IF entry.op = "buy_with_tip" /\ ~entry.rpc
               THEN "RPC client not available for transaction analysis"
          ELSE IF analysis_ok THEN "ok" ELSE "analysis failed"]
    /\ UNCHANGED <<raceVars, nonce, jitoVars, cacheVars, nonceEnvVars, lookupVars, pct, snap>>

\* ----------------------------------------------------------- sell_by_percent
\* u64 scaled to U64Bits bits.
U64Max == 2^U64Bits - 1

NoPct == [amount_token |-> 0, percent |-> 0, kind |-> "none", amount |-> 0]

\* sell_by_percent (lib.rs:372-376): the percent check, then
\* amount_token * percent / 100 in u64. A product over u64::MAX panics in a
\* build with overflow checks and wraps in one without; `checks` is which.
\* [kind, amount]: the error, the panic, or the amount passed on to sell.
sell_by_percent(amount_token, percent, checks) ==
    LET product == amount_token * percent
    IN  IF percent = 0 \/ percent > 100 THEN [kind |-> "err", amount |-> 0]
        ELSE IF product > U64Max
             THEN IF checks THEN [kind |-> "panic", amount |-> 0]
                  ELSE [kind |-> "sell", amount |-> (product % (U64Max + 1)) \div 100]
             ELSE [kind |-> "sell", amount |-> product \div 100]

\* A call of sell_by_percent
SellByPercent(amount_token, percent, checks) ==
    /\ pct.kind = "none"
    /\ LET r == sell_by_percent(amount_token, percent, checks)
       IN  pct' = [amount_token |-> amount_token, percent |-> percent,
                   kind |-> r.kind, amount |-> r.amount]
    /\ UNCHANGED <<raceVars, nonce, jitoVars, cacheVars, nonceEnvVars, lookupVars, entry, snap>>

InitRace ==
    /\ cfg = NoConfig
    /\ mainPc = "idle"
    /\ ret = NoRet
    /\ errors = <<>>
    /\ tpc = [i \in Endpoints |-> "none"]
    /\ ttx = [i \in Endpoints |-> NoTx]
    /\ tres = [i \in Endpoints |-> NoRes]
    /\ chan = <<>>
    /\ arrived = <<>>
    /\ sendOk = {}
    /\ tipCalled = {}
    /\ sendCalled = {}
    /\ polled = {}

InitJito ==
    /\ jpc = [c \in SendCalls |-> "idle"]
    /\ jattempt = [c \in SendCalls |-> 0]
    /\ jhist = [c \in SendCalls |-> <<>>]
    /\ jres = [c \in SendCalls |-> "none"]

InitCache ==
    /\ cache = [c \in Caches |-> <<>>]
    /\ computed = [c \in Caches |-> [k \in KeysOf(c) |-> 0]]
    /\ evicted = [c \in Caches |-> [k \in KeysOf(c) |-> 0]]
    /\ lastCall = [cache |-> "none", key |-> <<>>, hit |-> FALSE, ret |-> None, before |-> None]
    /\ useOrder = [c \in Caches |-> <<>>]
    /\ calls = 0
    /\ rent = NoRent
    /\ lastCreate = NoCreate
    /\ frames = [t \in Threads |-> <<>>]
    /\ tcall = [t \in Threads |-> NoCall]
    /\ tret = [t \in Threads |-> None]
    /\ lock = [c \in Caches |-> [readers |-> {}, writer |-> 0]]
    /\ writes = {}

InitLate ==
    /\ refresh = [r \in Threads |-> NoRefresh]
    /\ tables = [a \in LookupAddresses |-> None]
    /\ lkp = [t \in Threads |-> NoLookupCall]
    /\ lhist = [registered |-> {}, resolved |-> NoResolve]
    /\ entry = NoEntry
    /\ pct = NoPct
    /\ snap = None

Init ==
    /\ InitRace
    /\ nonce \in NonceStates
    /\ InitJito
    /\ InitCache
    /\ ledger = "h1"
    /\ InitLate

Next ==
    \/ \E c \in Configs : StartRace(c)
    \/ \E i \in Endpoints : TaskBuild(i)
    \/ \E i \in Endpoints : TaskSend(i)
    \/ \E i \in Endpoints : Forward(i)
    \/ RecvNoWait
    \/ RecvWait

Spec == Init /\ [][Next]_vars

\* JitoClient::send_transaction alone, MaxSends calls running concurrently.
InitJitoOnly ==
    /\ InitRace
    /\ nonce = NonceNew
    /\ InitJito
    /\ InitCache
    /\ ledger = "h1"
    /\ InitLate

NextJito ==
    \/ \E c \in SendCalls, resp \in JitoResponses : JitoSubmit(c, resp)
    \/ \E c \in SendCalls, outcome \in PollOutcomes : JitoPoll(c, outcome)

SpecJito == InitJitoOnly /\ [][NextJito]_vars

\* The caches alone, called by a single thread.
NextCache ==
    \/ get_cached_instructions
    \/ get_cached_pda
    \/ get_associated_token_address_fast
    \/ compute_budget_instructions_cached

SpecCache == InitJitoOnly /\ [][NextCache]_vars

\* Token-account creation instructions and the rent updater.
NextSeed ==
    \/ \E k \in AccountKeys : CreateAssociatedTokenAccount(k)
    \/ \E f1, f2 \in {None} \cup {Some(v) : v \in RentValues} : UpdateRents(f1, f2)

SpecSeed == InitJitoOnly /\ [][NextSeed]_vars

\* The caches called by MaxThreads threads, each thread scheduled fairly
\* (every thread is a running OS thread or a polled tokio task).
NextConc ==
    \/ \E t \in Threads : \E c \in Caches : \E k \in ConcKeysOf(c) : ThreadCall(t, c, k)
    \/ \E t \in Threads : AcquireRead(t)
    \/ \E t \in Threads : PeekRelease(t)
    \/ \E t \in Threads : Compute(t)
    \/ \E t \in Threads : AcquireWrite(t)
    \/ \E t \in Threads : PutRelease(t)

SpecConc == InitJitoOnly /\ [][NextConc]_vars /\ \A t \in Threads : WF_vars(ThreadStep(t))


\* The nonce state with its callers: init and mark_used called at any time,
\* up to MaxThreads overlapping refreshes, and the ledger moving on.
InitNonce ==
    /\ InitRace
    /\ nonce = NonceNew
    /\ InitJito
    /\ InitCache
    /\ ledger \in {"uninitialized"} \cup Tokens
    /\ InitLate

NextNonce ==
    \/ \E arg \in InitArgs : NonceInit(arg)
    \/ MarkUsed
    \/ \E tok \in Tokens : LedgerAdvance(tok)
    \/ \E r \in Threads : \E outcome \in {"rpc_error", "uninitialized"} \cup Tokens :
          RefreshStart(r, outcome)
    \/ \E r \in Threads : RefreshCompare(r)
    \/ \E r \in Threads : RefreshUpdate(r)

SpecNonce == InitNonce /\ [][NextNonce]_vars

\* The lookup registry called by MaxThreads threads.
NextLookup ==
    \/ \E t \in Threads : \E a \in LookupAddresses :
          \E table \in {None} \cup {Some(Table(a, ms)) : ms \in MemberLists} :
             AddOrUpdateTable(t, a, table)
    \/ \E t \in Threads : InsertTable(t)
    \/ \E a \in LookupAddresses : RemoveTable(a)
    \/ \E a \in LookupAddresses : \E ms \in MemberLists : UpdateTableContent(a, Table(a, ms))
    \/ \E a \in LookupAddresses : GetTableContent(a)

SpecLookup == InitJitoOnly /\ [][NextLookup]_vars

\* One call of an entry point of the executor, with the race it starts.
NextEntry ==
    \/ \E p \in EntryParams : EntryCall(p)
    \/ \E c \in Configs : EntryRace(c)
    \/ \E i \in Endpoints : TaskBuild(i)
    \/ \E i \in Endpoints : TaskSend(i)
    \/ \E i \in Endpoints : Forward(i)
    \/ RecvNoWait
    \/ RecvWait
    \/ \E analysis_ok \in BOOLEAN : EntryFinish(analysis_ok)

SpecEntry == InitJitoOnly /\ [][NextEntry]_vars

\* One call of sell_by_percent with any amount and a percent from 0 to 101,
\* or the largest u64.
NextPercent ==
    /\ pct.kind = "none"
    /\ \E amount_token \in 0..U64Max, percent \in (0..101) \cup {U64Max}, checks \in BOOLEAN :
          SellByPercent(amount_token, percent, checks)

SpecPercent == InitJitoOnly /\ [][NextPercent]_vars

\* The race with its tasks scheduled fairly: an endpoint task and a
\* forwarding task are tokio tasks the runtime keeps polling, and every
\* send_transaction returns.
SpecFair ==
    /\ Init /\ [][Next]_vars
    /\ \A i \in Endpoints :
          WF_vars(TaskBuild(i)) /\ WF_vars(TaskSend(i)) /\ WF_vars(Forward(i))

\* The race with its caller scheduled fairly as well: the future of
\* parallel_execute is polled whenever rx.recv() can make progress.
SpecTerm ==
    /\ SpecFair
    /\ WF_vars(RecvNoWait) /\ WF_vars(RecvWait)

\* Buy races running while the SDK's user calls init and a refresh is in
\* progress. The tip lists are as long as they can be, so that no call is
\* rejected for them.
BuildConfigs == {c \in BuyConfigs : c.buy_tips = MaxTips /\ c.sell_tips = 0}

NextBuild ==
    \/ \E arg \in InitArgs : NonceInit(arg)
    \/ \E outcome \in {"rpc_error", "uninitialized"} \cup Tokens : RefreshStart(1, outcome)
    \/ RefreshCompare(1)
    \/ RefreshUpdate(1)
    \/ \E c \in BuildConfigs : StartRace(c)
    \/ \E i \in Endpoints : TaskInstructions(i)
    \/ \E i \in Endpoints : TaskBlockhash(i)
    \/ \E i \in Endpoints : TaskSend(i)
    \/ \E i \in Endpoints : Forward(i)
    \/ RecvNoWait
    \/ RecvWait

SpecBuild == InitNonce /\ [][NextBuild]_vars

\* The methods of the NonceCache that take the lock once, called in any order.
NextNonceApi ==
    \/ MarkUsed
    \/ GetNonceInfo
    \/ \E a \in UpdateArgs : UpdateNonceInfoPartial(a)

SpecNonceApi == InitJitoOnly /\ [][NextNonceApi]_vars
\* ==================================================================== claims

Finished(i) == tpc[i] \in {"done", "forwarded"}
Failed(i) == Finished(i) /\ tres[i].kind # "ok"
HasNonceIx(tx) == \E j \in 1..Len(tx.instructions) : tx.instructions[j] = AdvanceNonceIx
NonceIxCount(tx) == Cardinality({j \in 1..Len(tx.instructions) : tx.instructions[j] = AdvanceNonceIx})

\* The endpoints of a call the selection rule picks, and among them the tipped ones.
SelectedSet(c) == {i \in 1..Len(c.clients) : Selected(c, i)}
TippedSelected(c) == {i \in SelectedSet(c) : c.clients[i] # "Default"}
\* The length of the tip list of the trade direction.
TipListLen(c) == IF c.is_buy THEN c.buy_tips ELSE c.sell_tips
\* The pre-condition of the race (spec 4.5) is violated.
TipMisaligned(c) ==
    \/ Cardinality(TippedSelected(c)) > TipListLen(c)
    \/ TipListLen(c) = 0 /\ TippedSelected(c) # {}

\* C1: a race returns an error only when every participating endpoint's task
\* has failed (so one success among failures wins), with
\* wait_for_confirmation true or false.
C1_ErrorOnlyWhenAllFailed ==
    (mainPc = "returned" /\ ret.kind = "err") => \A i \in Started : Failed(i)

\* C2: buy or sell, when the tipped endpoints selected outnumber the tip list
\* of the trade direction, or that list is empty while a tipped endpoint is
\* selected, the race fails with a configuration error before any task is
\* started: no get_tip_account, no send.
C2_TipAlignmentPreflight ==
    (mainPc # "idle" /\ TipMisaligned(cfg)) =>
        /\ mainPc = "returned" /\ ret.kind = "err"
        /\ Started = {} /\ tipCalled = {} /\ sendCalled = {}

\* C3: when every participating endpoint's task has failed, the error the race
\* returns carries exactly one message per participating endpoint, with
\* wait_for_confirmation true or false.
C3_AggregateOneMessagePerEndpoint ==
    (mainPc = "returned" /\ ret.kind = "err" /\ \A i \in Started : Failed(i)) =>
        Len(ret.msgs) = Cardinality(Started)

\* C4: in a race whose tip lists satisfy the pre-condition, a task is started
\* for an endpoint exactly if with_tip is true or the endpoint is the plain
\* one, and only such an endpoint's send is invoked.
C4_SelectionRule ==
    (mainPc # "idle" /\ ~TipMisaligned(cfg) /\ Len(cfg.clients) > 0) =>
        /\ Started = SelectedSet(cfg)
        /\ sendCalled \subseteq SelectedSet(cfg)

\* C5: add_nonce_instruction, called by the build of a buy task: with no
\* nonce account it succeeds and appends nothing; with an account and
\* used=true it fails with "Nonce is used"; with an account, used=false and
\* the zero token it fails with "Nonce is not ready"; otherwise it succeeds and
\* appends exactly one nonce-advance instruction. A failure appends nothing.
C5_NonceGating ==
    \A i \in Started :
        (cfg.is_buy /\ tpc[i] # "spawned" /\ tres[i].kind # "panic"
            /\ tres[i].err # "no valid tip accounts found") =>
            IF nonce.nonce_account = NoAccount
            THEN /\ tres[i].err \notin {"Nonce is used", "Nonce is not ready"}
                 /\ NonceIxCount(ttx[i]) = 0
            ELSE IF nonce.used
            THEN tres[i] = [kind |-> "err", err |-> "Nonce is used", sig |-> None] /\ ttx[i] = NoTx
            ELSE IF nonce.current_nonce = ZeroHash
            THEN tres[i] = [kind |-> "err", err |-> "Nonce is not ready", sig |-> None]
                 /\ ttx[i] = NoTx
            ELSE /\ tres[i].err \notin {"Nonce is used", "Nonce is not ready"}
                 /\ (tres[i].err # "compile error" =>
                        /\ NonceIxCount(ttx[i]) = 1
                        /\ ttx[i].instructions[1] = AdvanceNonceIx)

\* C5 witness: a buy task over a ready nonce built a transaction that opens
\* with the one nonce-advance instruction and was sent.
C5_Witness ==
    \E i \in Started :
        /\ cfg.is_buy /\ nonce = NonceReady
        /\ i \in sendCalled
        /\ NonceIxCount(ttx[i]) = 1

\* C6: after add_nonce_instruction has appended a nonce-advance instruction
\* to a buy task's transaction, the nonce state has used=true.
C6_ConsumeMarksUsed ==
    \A i \in Started : (cfg.is_buy /\ HasNonceIx(ttx[i])) => nonce.used

C8_NoPollingWithoutWait ==
    (mainPc = "returned" /\ ~cfg.wait /\ ret.kind = "sig") => ret.who \notin polled

AllTimeouts(h) == \A j \in 1..Len(h) : h[j] = "timeout"
Padded(h) == [j \in 1..(max_retries + 1) |-> IF j <= Len(h) THEN h[j] ELSE "ok"]

\* C9: confirm_transaction_with_retry polls at most max_retries + 1 = 3
\* times; every poll but the last reported a time-out; a successful poll ends
\* the call with success; a time-out ends it (with the timed-out error) only
\* as the third poll; any other error ends it at once with that error.
C9_ConfirmationRetry ==
    \A c \in SendCalls :
        /\ Len(jhist[c]) <= max_retries + 1
        /\ Len(jhist[c]) > 0 => AllTimeouts(SubSeq(jhist[c], 1, Len(jhist[c]) - 1))
        /\ jpc[c] = "confirm" =>
              /\ AllTimeouts(jhist[c])
              /\ Len(jhist[c]) <= max_retries
              /\ jattempt[c] = Len(jhist[c])
        /\ (jpc[c] = "done" /\ jhist[c] # <<>>) =>
              LET last == jhist[c][Len(jhist[c])] IN
              /\ last = "ok" => jres[c] = "ok"
              /\ last = "other" => jres[c] = "other"
              /\ last = "timeout" => jres[c] = "timed_out" /\ Len(jhist[c]) = max_retries + 1
              /\ jres[c] = confirm_transaction_with_retry(Padded(jhist[c])).res
              /\ Len(jhist[c]) = confirm_transaction_with_retry(Padded(jhist[c])).polls

\* C9 witness: time-out, time-out, success has succeeded.
C9_Witness ==
    \E c \in SendCalls :
        jpc[c] = "done" /\ jhist[c] = <<"timeout", "timeout", "ok">> /\ jres[c] = "ok"

\* C10 as stated: compute_fn is invoked at most once per distinct key, in
\* every cache.
C10_ComputeAtMostOncePerKey ==
    \A c \in Caches : \A k \in KeysOf(c) : computed[c][k] <= 1

\* C10 as amended: a hit returns the stored value without invoking
\* compute_fn; a miss invokes it and returns its result, which is stored
\* unless it is None; every call returns f's value for the key; f is invoked at
\* most once per key in the unbounded compute-budget cache and, for a key whose
\* f yields a value, at most once plus once per eviction in an LRU cache.
C10_GetOrCompute ==
    /\ lastCall.cache # "none" =>
          LET c == lastCall.cache
              k == lastCall.key
          IN  /\ lastCall.ret = compute_fn(c, k)
              /\ lastCall.hit <=> lastCall.before # None
              /\ lastCall.hit => lastCall.ret = lastCall.before
              /\ peek(cache[c], k) = lastCall.ret
    /\ \A c \in Caches : \A k \in KeysOf(c) :
          /\ peek(cache[c], k) # None => peek(cache[c], k) = compute_fn(c, k)
          /\ compute_fn(c, k) # None => computed[c][k] <= 1 + evicted[c][k]
          /\ c = "compute_budget" => computed[c][k] <= 1 /\ evicted[c][k] = 0

\* C10 witness: a hit on a key computed once, and a key recomputed after its
\* eviction.
C10_Witness ==
    /\ lastCall.cache # "none"
    /\ lastCall.hit
    /\ computed[lastCall.cache][lastCall.key] = 1
    /\ \E k \in KeysOf(lastCall.cache) :
          computed[lastCall.cache][k] = 2 /\ evicted[lastCall.cache][k] = 1

\* The keys a cache holds, and the position of a key in the order of last use.
Present(c) == {cache[c][j].key : j \in 1..Len(cache[c])}
UsePos(c, k) == CHOOSE j \in 1..Len(useOrder[c]) : useOrder[c][j] = k

\* C11: eviction is strict least-recently-used, a hit counting as a use: the
\* entry a step evicts is, of the entries the cache held, the one whose last
\* use (insertion or hit) is the oldest.
C11_EvictsLeastRecentlyUsed ==
    [][\A c \in Caches : \A k \in KeysOf(c) :
          evicted'[c][k] > evicted[c][k] =>
              \A x \in Present(c) : UsePos(c, x) <= UsePos(c, k)]_vars

\* C12: every cache holds at most its configured capacity of entries.
C12_CapacityBound ==
    \A c \in Caches : Len(cache[c]) <= CacheCapacity

\* C13: a cache entry is never wrong: the value stored for a key equals the
\* value its compute function would return now, also for seed-mode creation
\* instructions after update_rents has changed the rent.
C13_EntriesNeverWrong ==
    /\ \A j \in 1..Len(cache["instruction"]) :
          LET e == cache["instruction"][j]
              now == create_instruction_compute(rent, cache["ata"], e.key)
          IN  now.ok /\ e.val = now.val
    /\ \A j \in 1..Len(cache["ata"]) :
          cache["ata"][j].val = ata_address(cache["ata"][j].key)

EntriesFor(c, k) == {j \in 1..Len(cache[c]) : cache[c][j].key = k}
AllReturned == \A t \in Threads : tret[t] # None
\* All the threads called get_or_compute of one cache for one key.
OneKeyCalled == \A t, u \in Threads : tcall[t] = tcall[u] /\ tcall[t] # NoCall
HoldsLock(t, c) == t \in lock[c].readers \/ lock[c].writer = t

\* C14 as stated, its last state: when several calls for one key have all
\* returned, the cache holds a single entry for the key.
C14_EndsWithSingleEntry ==
    (AllReturned /\ OneKeyCalled) =>
        \A t \in Threads : Cardinality(EntriesFor(tcall[t].c, tcall[t].k)) = 1

C14_Safe ==
    \* every caller of a key returns the same value, that of compute_fn
    /\ \A t \in Threads : tret[t] # None => tret[t] = Some(compute_fn(tcall[t].c, tcall[t].k))
    /\ \A t, u \in Threads :
          (tret[t] # None /\ tret[u] # None /\ tcall[t] = tcall[u]) => tret[t] = tret[u]
    \* every value written for a key is equal
    /\ \A w, x \in writes : (w[1] = x[1] /\ w[2] = x[2]) => w[3] = x[3]
    \* a cache never holds two entries for a key
    /\ \A c \in Caches : \A k \in ConcKeysOf(c) : Cardinality(EntriesFor(c, k)) <= 1
    \* compute_fn runs while the thread holds no lock of the cache, and no
    \* lock at all when the closure is not itself inside another cache
    /\ \A t \in Threads : \A j \in 1..Len(frames[t]) :
          frames[t][j].pc \in {"compute", "nested", "store"} => ~HoldsLock(t, frames[t][j].c)
    /\ \A t \in Threads :
          (frames[t] # <<>> /\ Top(t).pc = "compute") => \A c \in Caches : ~HoldsLock(t, c)
    \* when the calls for one key have returned, the key has its entry unless
    \* compute_fn found no value
    /\ (AllReturned /\ OneKeyCalled) =>
          \A t \in Threads :
              Cardinality(EntriesFor(tcall[t].c, tcall[t].k))
                  = IF compute_fn(tcall[t].c, tcall[t].k) # None THEN 1 ELSE 0

\* C14 as amended: in every interleaving of concurrent get_or_compute calls
\* every caller of a key returns the same value, the values written for a
\* key are equal, a cache never holds two entries for a key and ends with one
\* entry for the key unless compute_fn yields None (then with none),
\* compute_fn runs while no lock of the cache is held, and every call returns.
C14_ConcurrentFirstAccess == []C14_Safe /\ <>AllReturned

\* C14 witness: two threads missed the same key of the instruction cache at
\* the same time, both ran compute_fn, both wrote, and both have returned.
C14_Witness ==
    /\ AllReturned /\ OneKeyCalled
    /\ tcall[1] = [c |-> "instruction", k |-> <<"k1">>]
    /\ computed["instruction"][<<"k1">>] = MaxThreads
    /\ computed["ata"][<<"k1">>] = MaxThreads
    /\ Cardinality(EntriesFor("instruction", <<"k1">>)) = 1

\* The kinds of instruction of an assembled transaction, in the order of the
\* plan: nonce advance, compute budget, business, tip transfer.
ComputeBudgetOps ==
    {"set_loaded_accounts_data_size_limit", "set_compute_unit_price", "set_compute_unit_limit"}
Stage(x) ==
    IF x.op = "advance_nonce_account" THEN 1
    ELSE IF x.op \in ComputeBudgetOps THEN 2
    ELSE IF x.op = "business" THEN 3
    ELSE IF x.op = "transfer" THEN 4
    ELSE 0
StageCount(ins, n) == Cardinality({j \in 1..Len(ins) : Stage(ins[j]) = n})
Ops(ins) == [j \in 1..Len(ins) |-> ins[j].op]
\* The endpoints whose transaction was assembled.
Assembled == {i \in Started : ttx[i] # NoTx}

\* C15: the instructions of an assembled transaction are, in this order, at
\* most one nonce advance, the compute-budget instructions, the caller's
\* business instructions unchanged, at most one tip transfer; nothing else.
C15_InstructionOrder ==
    \A i \in Assembled :
        LET ins == ttx[i].instructions IN
        /\ \A j \in 1..Len(ins) : Stage(ins[j]) \in 1..4
        /\ \A j, k \in 1..Len(ins) : j < k => Stage(ins[j]) <= Stage(ins[k])
        /\ StageCount(ins, 1) <= 1
        /\ StageCount(ins, 2) >= 1
        /\ SelectSeq(ins, LAMBDA x : Stage(x) = 3) = BusinessInstructions
        /\ StageCount(ins, 4) <= 1

\* C15 witness: a buy over a tipped endpoint with a ready nonce assembled all
\* four parts.
C15_Witness ==
    \E i \in Assembled :
        /\ StageCount(ttx[i].instructions, 1) = 1
        /\ StageCount(ttx[i].instructions, 4) = 1
        /\ Len(ttx[i].instructions) = 5 + Len(BusinessInstructions)

\* A buy with no nonce account, raced over one plain endpoint.
PlainBuyNoNonce ==
    cfg.is_buy /\ nonce.nonce_account = NoAccount /\ cfg.clients = <<"Default">>

\* C16 as stated: such a buy assembles exactly 2 compute-budget instructions
\* followed by the business instructions, no tip and no nonce advance.
C16_TwoComputeBudgetInstructions ==
    \A i \in Assembled :
        PlainBuyNoNonce =>
            /\ StageCount(ttx[i].instructions, 2) = 2
            /\ SubSeq(ttx[i].instructions, 3, Len(ttx[i].instructions)) = BusinessInstructions

\* C16 as amended: such a buy assembles exactly 3 compute-budget instructions
\* (data-size limit, unit price, unit limit) followed by the business
\* instructions, with no tip transfer and no nonce advance.
C16_PlainBuyNoNonce ==
    \A i \in Assembled :
        PlainBuyNoNonce =>
            LET ins == ttx[i].instructions IN
            /\ Len(ins) = 3 + Len(BusinessInstructions)
            /\ Ops(SubSeq(ins, 1, 3)) = <<"set_loaded_accounts_data_size_limit",
                                           "set_compute_unit_price", "set_compute_unit_limit">>
            /\ SubSeq(ins, 4, Len(ins)) = BusinessInstructions
            /\ StageCount(ins, 4) = 0 /\ StageCount(ins, 1) = 0

\* C16 witness: the transaction of such a buy was assembled and sent.
C16_Witness ==
    PlainBuyNoNonce /\ 1 \in Assembled /\ 1 \in sendCalled

\* C17: the compute-budget instructions of a buy are the data-size limit, the
\* unit price and the unit limit, those of a sell the unit price and the unit
\* limit; the same inputs yield identical instructions, served from the cache
\* or computed.
C17_ComputeBudgetPrefix ==
    /\ lastCall.cache = "compute_budget" =>
          LET k == lastCall.key
              ins == lastCall.ret[1]
              price == IF k[2] THEN "rpc_unit_price" ELSE "tip_unit_price"
              limit == IF k[2] THEN "rpc_unit_limit" ELSE "tip_unit_limit"
          IN  /\ Ops(ins) = IF k[3]
                            THEN <<"set_loaded_accounts_data_size_limit",
                                   "set_compute_unit_price", "set_compute_unit_limit">>
                            ELSE <<"set_compute_unit_price", "set_compute_unit_limit">>
              /\ k[3] => ins[1].src = k[1]
              /\ ins[Len(ins) - 1].src = price
              /\ ins[Len(ins)].src = limit
              /\ lastCall.hit => lastCall.ret = lastCall.before
    /\ \A j \in 1..Len(cache["compute_budget"]) :
          LET e == cache["compute_budget"][j]
          IN  e.val = compute_budget_instructions(e.key[1], e.key[2], e.key[3])

\* C17 witness: the instructions of a buy were served from the cache.
C17_Witness ==
    /\ lastCall.cache = "compute_budget" /\ lastCall.hit /\ lastCall.key[3]
    /\ Len(cache["compute_budget"]) >= 2

PriceAndLimit(ins) ==
    {<<ins[j].op, ins[j].src>> :
        j \in {x \in 1..Len(ins) : ins[x].op \in {"set_compute_unit_price", "set_compute_unit_limit"}}}

\* C18: the transaction of a tipped endpoint carries tip_unit_price and
\* tip_unit_limit, that of the plain endpoint rpc_unit_price and rpc_unit_limit.
C18_UnitPriceByEndpointKind ==
    \A i \in Assembled :
        PriceAndLimit(ttx[i].instructions) =
            IF cfg.clients[i] = "Default"
            THEN {<<"set_compute_unit_price", "rpc_unit_price">>,
                  <<"set_compute_unit_limit", "rpc_unit_limit">>}
            ELSE {<<"set_compute_unit_price", "tip_unit_price">>,
                  <<"set_compute_unit_limit", "tip_unit_limit">>}

TipTransfers(ins) == {j \in 1..Len(ins) : ins[j].op = "transfer"}

\* C19: the tip of the endpoint at position i is element i of buy_tip_fees in
\* a buy and of sell_tip_fees in a sell.
C19_TipAmountOfDirection ==
    \A i \in Assembled : \A j \in TipTransfers(ttx[i].instructions) :
        /\ ttx[i].instructions[j].idx = i
        /\ ttx[i].instructions[j].list = IF cfg.is_buy THEN "buy_tip_fees" ELSE "sell_tip_fees"

\* C20: the transaction of a plain endpoint has no tip transfer, also when
\* with_tip is true; that of a tipped endpoint has exactly one, as its last
\* instruction, from the payer to the tip account that endpoint reported.
C20_TipFollowsEndpointKind ==
    \A i \in Assembled :
        LET ins == ttx[i].instructions IN
        IF cfg.clients[i] = "Default" THEN TipTransfers(ins) = {}
        ELSE /\ TipTransfers(ins) = {Len(ins)}
             /\ ins[Len(ins)].src = "payer"
             /\ ins[Len(ins)].dst \in TipAccounts(cfg.clients[i])
             /\ ins[Len(ins)].dst = ttx[i].tip_account

\* C20 witness: a call with with_tip true over a plain and a tipped endpoint
\* assembled both transactions.
C20_Witness ==
    /\ cfg.with_tip /\ cfg.clients = <<"Default", "Jito">>
    /\ Assembled = {1, 2}
    /\ sendCalled = {1, 2}


\* Every value the NonceInfo can hold.
NonceInfos ==
    [nonce_account : {NoAccount, NonceAccount}, current_nonce : Tokens \cup {ZeroHash},
     next_buy_time : {0}, used : BOOLEAN]

\* C21: the blockhash of an assembled transaction is, for a buy, the stored
\* nonce token when a nonce account is configured and the caller's recent
\* blockhash when none is; for a sell it is the caller's recent blockhash,
\* also with a nonce account configured. get_transaction_blockhash itself
\* returns the stored token for a configured account whatever the used flag.
C21_EffectiveBlockhash ==
    /\ \A i \in Assembled :
          ttx[i].blockhash =
              IF cfg.is_buy /\ nonce.nonce_account # NoAccount
              THEN nonce.current_nonce ELSE RecentBlockhash
    /\ \A n \in NonceInfos :
          get_transaction_blockhash(n, RecentBlockhash) =
              IF n.nonce_account # NoAccount THEN n.current_nonce ELSE RecentBlockhash

\* C21 witness: a buy over a ready nonce and a sell over a configured nonce
\* are told apart: here a sent buy transaction carries the nonce token.
C21_Witness ==
    /\ cfg.is_buy /\ nonce = NonceReady
    /\ \E i \in sendCalled : ttx[i].blockhash = "h1"

\* A sent sell transaction carries the recent blockhash although a nonce
\* account is configured and ready.
C21_SellWitness ==
    /\ ~cfg.is_buy /\ nonce = NonceReady /\ mainPc # "idle"
    /\ \E i \in sendCalled : ttx[i].blockhash = RecentBlockhash

\* C22: after init returns, the coordinator is Absent when init was called
\* without an account, and Stale (that account, the zero token, used=false)
\* when it was called with an account, whatever the state before the call.
C22_InitResets ==
    [][\A arg \in {None, Some(NonceAccount)} :
          NonceInit(arg) =>
              nonce' = IF arg = None THEN NonceAbsent ELSE NonceStale]_vars

\* A refresh call of r ends in this step.
RefreshEnds(r) == refresh[r].pc \in {"fetched", "update"} /\ refresh'[r].pc = "idle"

\* C23: a refresh that read a token different from the stored one overwrites
\* the token and sets used=false, leaving the other fields; one that read the
\* stored token changes nothing; one whose ledger read failed, or that found
\* the account not initialized, changes nothing; each of them returns Ok.
C23_RefreshOutcomes ==
    [][\A r \in Threads :
          /\ (\E o \in {"rpc_error", "uninitialized"} : RefreshStart(r, o))
                => (nonce' = nonce
                    /\ (nonce.nonce_account # NoAccount
                          => refresh'[r].pc = "idle" /\ refresh'[r].res = "ok"))
          /\ RefreshCompare(r)
                => /\ nonce' = nonce
                   /\ IF refresh[r].got = nonce.current_nonce
                      THEN refresh'[r].pc = "idle" /\ refresh'[r].res = "ok"
                      ELSE refresh'[r].pc = "update"
          /\ RefreshUpdate(r)
                => /\ nonce' = [nonce EXCEPT !.current_nonce = refresh[r].got, !.used = FALSE]
                   /\ refresh'[r].pc = "idle" /\ refresh'[r].res = "ok"]_vars

\* C23 witness: a refresh that found the nonce Spent and read a new token has
\* returned Ok, the token overwritten and used reset.
C23_Witness ==
    \E r \in Threads :
        /\ refresh[r].pc = "idle" /\ refresh[r].res = "ok"
        /\ refresh[r].spent /\ refresh[r].got \in Tokens
        /\ nonce = [nonce_account |-> NonceAccount, current_nonce |-> refresh[r].got,
                    next_buy_time |-> 0, used |-> FALSE]

\* C24: a refresh that found the nonce Spent and whose ledger read succeeded
\* leaves the nonce usable (used=false) when it ends, also when the ledger
\* still holds the token the nonce was marked used with.
C24_SpentUntilNextRefresh ==
    [][\A r \in Threads : (RefreshEnds(r) /\ refresh[r].spent) => ~nonce'.used]_vars

\* The table registered last for a is m.
RegisteredWith(tabs, a, m) ==
    tabs[a] # None /\ tabs[a][1].address_lookup_table = Some(m)

\* C25: the lookup registry is a last-write-wins map. The step that ends
\* add_or_update_table(a, Some(m)) leaves resolve(a) = m, whatever was
\* registered for a before; registering m where m is registered changes
\* nothing; after remove_table(a) resolve(a) is the empty table; an address for
\* which no content was ever registered resolves to the empty table; and
\* get_table_content returns what is registered, or the empty table.
C25_LastWriteWins ==
    /\ [](\A a \in LookupAddresses :
            (\A ms \in MemberLists : <<a, Table(a, ms)>> \notin lhist.registered)
                => get_table_content(tables, a) = Table(a, <<>>))
    /\ [][/\ \A t \in Threads, a \in LookupAddresses, ms \in MemberLists :
                (AddOrUpdateTable(t, a, Some(Table(a, ms))) /\ tables[a] # None)
                    => /\ get_table_content(tables', a) = Table(a, ms)
                       /\ RegisteredWith(tables, a, Table(a, ms)) => tables' = tables
          /\ \A t \in Threads :
                (InsertTable(t) /\ lkp[t].table # None)
                    => get_table_content(tables', lkp[t].addr) = lkp[t].table[1]
          /\ \A a \in LookupAddresses :
                RemoveTable(a) => get_table_content(tables', a) = Table(a, <<>>)
          /\ \A a \in LookupAddresses :
                GetTableContent(a)
                    => /\ lhist'.resolved.addr = a
                       /\ \A ms \in MemberLists :
                             RegisteredWith(tables, a, Table(a, ms))
                                 => lhist'.resolved.table = Table(a, ms)
                       /\ tables[a] = None => lhist'.resolved.table = Table(a, <<>>)]_vars

\* C25 witness: lut1 was registered with one member list, then with the
\* other, and resolve(lut1) returned the later one.
C25_Witness ==
    /\ <<"lut1", Table("lut1", <<"k1">>)>> \in lhist.registered
    /\ RegisteredWith(tables, "lut1", Table("lut1", <<"k1", "k2">>))
    /\ lhist.resolved = [addr |-> "lut1", table |-> Table("lut1", <<"k1", "k2">>)]

\* C26: the race does not cancel losers. Once the race has returned a
\* signature, every task that was started goes on to its end (a transaction
\* that was assembled is sent, and the send returns) and its forwarding task
\* ends although nobody receives; what the race returned never changes.
C26_LosersRunToCompletion ==
    /\ [][mainPc = "returned" => (ret' = ret /\ mainPc' = mainPc)]_vars
    /\ \A i \in Endpoints :
          (mainPc = "returned" /\ ret.kind = "sig" /\ i \in Started)
              ~> (tpc[i] = "forwarded" /\ (ttx[i] # NoTx => i \in sendCalled))

\* C26 witness: the race returned the signature of one endpoint while the
\* other's task had not got as far as its send; that task then sent, with
\* success, and its forwarding task ended with nobody receiving the result.
C26_Witness ==
    /\ mainPc = "returned" /\ ret.kind = "sig"
    /\ \E i \in Started \ {ret.who} :
          /\ tpc[i] = "forwarded" /\ i \in sendOk
          /\ \A j \in 1..Len(arrived) : arrived[j] # i

\* The errors that end an endpoint task before its send.
BuildErrors ==
    {"no valid tip accounts found", "Nonce is used", "Nonce is not ready", "compile error"}

\* C27: an endpoint's send is invoked only after its tip account was
\* retrieved and its transaction assembled, the nonce-advance instruction (of
\* a buy with a nonce account) inserted first; a task whose tip-account
\* retrieval, nonce insertion or assembly failed has no transaction and its
\* send is never invoked.
C27_SendAfterAssembly ==
    \A i \in Started :
        /\ (i \in sendCalled \/ tpc[i] = "built") =>
              /\ ttx[i] # NoTx /\ ttx[i].signatures # <<>>
              /\ i \in tipCalled
              /\ (cfg.is_buy /\ nonce.nonce_account # NoAccount)
                    => ttx[i].instructions[1] = AdvanceNonceIx
        /\ tres[i].err \in BuildErrors => (i \notin sendCalled /\ ttx[i] = NoTx)

\* C27 witness: in one race an endpoint's task ended at its tip-account
\* retrieval without a send, and another endpoint's assembled transaction
\* was sent.
C27_Witness ==
    \E i, j \in Started :
        /\ tres[i].err = "no valid tip accounts found" /\ i \notin sendCalled
        /\ j \in sendCalled /\ ttx[j] # NoTx

\* The errors of a call that fails for its configuration.
ConfigurationErrors ==
    {"RPC is not set", "RPC client not available for transaction analysis",
     "Amount cannot be zero", "Invalid protocol params for PumpFun"}

\* C28: a call of buy, buy_with_tip, sell or sell_with_tip that fails
\* because its amount is zero, its RPC client is missing or its protocol
\* parameters are of the wrong type returns before any endpoint's send has
\* been invoked.
C28_ConfigurationErrorBeforeIO ==
    (entry.pc = "returned" /\ entry.ret \in ConfigurationErrors) => sendCalled = {}

\* C29: sell_by_percent returns an error and sells nothing when percent is 0
\* or over 100; for a percent from 1 to 100 and any u64 amount_token it sells
\* floor(amount_token * percent / 100) tokens, the product neither
\* overflowing nor wrapping.
C29_SellByPercent ==
    pct.kind # "none" =>
        IF pct.percent = 0 \/ pct.percent > 100
        THEN pct.kind = "err"
        ELSE /\ pct.kind = "sell"
             /\ pct.amount = (pct.amount_token * pct.percent) \div 100

\* The endpoints whose success the completion queue received, in order.
ArrivedOk == SelectSeq(arrived, LAMBDA i : tres[i].kind = "ok")

\* C30: the signature the race returns is the first signature of the
\* transaction its winner sent; the winner is the endpoint whose success is
\* the first in the completion queue, whatever its position in the endpoint
\* list; its send was invoked and returned Ok.
C30_WinnerSignature ==
    (mainPc = "returned" /\ ret.kind = "sig") =>
        /\ ret.who \in Started
        /\ ArrivedOk # <<>> /\ ret.who = Head(ArrivedOk)
        /\ ret.who \in sendCalled /\ ret.who \in sendOk
        /\ ttx[ret.who].signatures # <<>>
        /\ ret.sig = Some(Head(ttx[ret.who].signatures))

\* C30 witness: the second endpoint of the list won, its success arriving
\* after the first endpoint's failure and before anything else; its
\* transaction differs from the first endpoint's.
C30_Witness ==
    /\ mainPc = "returned" /\ ret.kind = "sig" /\ ret.who = 2
    /\ arrived = <<1, 2>>
    /\ 1 \in sendCalled /\ 1 \notin sendOk
    /\ ttx[1].signatures # ttx[2].signatures

\* The text of the error of the pre-flight checks (parallel.rs:81 and 88).
PreflightError == "Number of tip clients exceeds the configured tip fees"

\* C31: a race none of whose participating endpoints is tipped (a sell with
\* with_tip=false, a buy over plain endpoints only) is not rejected by the
\* pre-flight check for the length of a tip list, the empty list included,
\* and none of its tasks fails for a missing tip amount.
C31_PlainEndpointsNeedNoTips ==
    (mainPc # "idle" /\ TippedSelected(cfg) = {}) =>
        /\ ~(ret.kind = "err" /\ ret.text = PreflightError)
        /\ \A i \in Started : ~(tres[i].kind = "panic" /\ tres[i].err = "index out of bounds")

\* C32: every race call terminates with a signature or an error value,
\* whatever the endpoint list, the empty list and a list no endpoint of which
\* participates included: it neither waits forever on the completion queue
\* nor ends abnormally.
C32_RaceTerminates ==
    (mainPc # "idle") ~> (mainPc = "returned" /\ ret.kind \in {"sig", "err"})

\* The same for a call with at least one endpoint in its list.
C32_NonEmptyListTerminates ==
    (mainPc # "idle" /\ Len(cfg.clients) > 0)
        ~> (mainPc = "returned" /\ ret.kind \in {"sig", "err"})

\* The endpoints for whose transaction add_nonce_instruction succeeded with
\* the stored token tok.
ConsumedBy(tok) == {i \in Assembled : HasNonceIx(ttx[i]) /\ ttx[i].blockhash = tok}

\* C33: a nonce token is consumed at most once: among the endpoint tasks of a
\* buy race at most one add_nonce_instruction succeeds for a stored token
\* value, in every interleaving of the tasks.
C33_TokenConsumedOnce ==
    \A tok \in Tokens : Cardinality(ConsumedBy(tok)) <= 1

\* The endpoints whose transaction build_transaction returned.
Built == {i \in Started : ttx[i].signatures # <<>>}

\* C34: every assembled buy transaction is consistent about the nonce, in
\* every interleaving of init and refresh with the assembly: its blockhash is
\* a nonce token when its first instruction is the nonce-advance instruction
\* and the caller's recent blockhash when it has none, and a transaction
\* whose blockhash is the zero value is never sent.
C34_NonceConsistentTransaction ==
    \A i \in Built :
        /\ ttx[i].instructions[1] = AdvanceNonceIx => ttx[i].blockhash \in Tokens
        /\ ~HasNonceIx(ttx[i]) => ttx[i].blockhash = RecentBlockhash
        /\ i \in sendCalled => ttx[i].blockhash # ZeroHash

\* C35: in every interleaving of refresh calls, two overlapping ones
\* included, with mark_used, a refresh takes the used flag from true to false
\* only in a step that also replaces the stored token by a different value:
\* a token that was marked used does not become Ready again.
C35_UsedResetOnlyWithNewToken ==
    [][\A r \in Threads :
          (RefreshUpdate(r) /\ nonce.used /\ ~nonce'.used)
              => nonce'.current_nonce # nonce.current_nonce]_vars

\* C36: a registration with content is never lost to a concurrent
\* registration without content: no step of add_or_update_table(a, None)
\* changes what a resolves to, in any interleaving and whether or not a was
\* registered before.
C36_ContentNotLostToEmptyRegistration ==
    [][/\ \A t \in Threads, a \in LookupAddresses :
             AddOrUpdateTable(t, a, None)
                 => get_table_content(tables', a) = get_table_content(tables, a)
       /\ \A t \in Threads :
             (InsertTable(t) /\ lkp[t].table = None)
                 => get_table_content(tables', lkp[t].addr)
                       = get_table_content(tables, lkp[t].addr)]_vars

NonceFields == {"nonce_account", "current_nonce", "next_buy_time", "used"}

\* C37: updates of the nonce state touch only what they name.
\* update_nonce_info_partial sets exactly the fields passed as present and
\* leaves the others; mark_used sets the used flag and leaves nonce_account,
\* current_nonce and next_buy_time; get_nonce_info changes nothing and
\* returns the four fields of the one state it was called in.
C37_NonceUpdatesFrame ==
    [][/\ \A a \in UpdateArgs :
             UpdateNonceInfoPartial(a)
                 => /\ \A f \in NonceFields :
                          nonce'[f] = IF a[f] # None THEN a[f][1] ELSE nonce[f]
                    /\ snap' = snap
       /\ MarkUsed
             => /\ nonce'.used
                /\ nonce'.nonce_account = nonce.nonce_account
                /\ nonce'.current_nonce = nonce.current_nonce
                /\ nonce'.next_buy_time = nonce.next_buy_time
       /\ GetNonceInfo
             => /\ nonce' = nonce
                /\ snap' = Some(nonce)]_vars

\* C37 witness: after updates that set every field, one of them the time
\* alone, get_nonce_info returned the state as it is: account, token h2,
\* time 1, used.
C37_Witness ==
    /\ nonce = [nonce_account |-> NonceAccount, current_nonce |-> "h2",
                next_buy_time |-> 1, used |-> TRUE]
    /\ snap = Some(nonce)

\* The transaction build_transaction returns for the sell of endpoint i when
\* no nonce is configured at all.
SellTxWithoutNonce(i) ==
    build_transaction(NonceAbsent, FALSE, cfg.clients[i] # "Default", ttx[i].tip_account,
                      [list |-> "buy_tip_fees", idx |-> i], cfg.data_size_limit, TRUE).tx

SellUntouchedByNonce ==
    (mainPc # "idle" /\ ~cfg.is_buy) =>
        /\ \A i \in Assembled :
              /\ ~HasNonceIx(ttx[i])
              /\ ttx[i].blockhash = RecentBlockhash
              /\ ttx[i] = SellTxWithoutNonce(i)
        /\ \A i \in Started : tres[i].err \notin {"Nonce is used", "Nonce is not ready"}

\* C38: sells never touch the durable nonce. No step of a sell race changes
\* a field of the nonce state; no transaction a sell assembles has a
\* nonce-advance instruction, each is the transaction the sell assembles with
\* no nonce configured, and no sell task fails for the nonce, whether the
\* nonce is Absent, Stale, Ready or Spent.
C38_SellsNeverTouchNonce ==
    /\ []SellUntouchedByNonce
    /\ [][~cfg'.is_buy => nonce' = nonce]_vars

\* C38 witness: with the nonce Spent, a sell over a plain and a tipped
\* endpoint assembled and sent both transactions and returned a signature.
C38_Witness ==
    /\ ~cfg.is_buy /\ nonce = NonceSpent
    /\ mainPc = "returned" /\ ret.kind = "sig"
    /\ Assembled = {1, 2} /\ sendCalled = {1, 2}
    /\ cfg.clients = <<"Default", "Jito">>

\* The address function called for the owner of the last creation call, as
\* the ATA cache stands.
AddressOfLastCreate ==
    get_associated_token_address_with_program_id_fast(
        cache["ata"],
        [wallet_address |-> lastCreate.key.owner, mint |-> lastCreate.key.mint,
         token_program |-> lastCreate.key.token_program,
         use_seed |-> lastCreate.key.use_seed]).ret

\* C39: address and creation instruction agree. The account every
\* instruction of _create_associated_token_account_idempotent_fast(payer,
\* owner, mint, token_program, use_seed) names is the address the address
\* function returns for (owner, mint, token_program, use_seed), in seed mode
\* as in standard mode and for an owner other than the payer, and the two take
\* the seed branch together.
C39_AddressMatchesCreation ==
    lastCreate.ok =>
        /\ \A j \in 1..Len(lastCreate.ret) : lastCreate.ret[j].src = AddressOfLastCreate
        /\ (lastCreate.ret[1].op = "create_account_with_seed")
              <=> (AddressOfLastCreate[1] = "with_seed")

\* The same for the calls whose owner is the payer.
C39_AgreeForOwnPayer ==
    (lastCreate.ok /\ lastCreate.key.owner = lastCreate.key.payer) =>
        /\ \A j \in 1..Len(lastCreate.ret) : lastCreate.ret[j].src = AddressOfLastCreate
        /\ (lastCreate.ret[1].op = "create_account_with_seed")
              <=> (AddressOfLastCreate[1] = "with_seed")
====
